---- MODULE Spec2Model ----
(***************************************************************************)
(* Model of the recurring-transaction and ledger engine of bachat:         *)
(*   src/src/lib/inngest/function.ts   (scan, dispatch, processor,         *)
(*                                      budget alerts, date helpers)       *)
(*   src/src/lib/actions/transaction.ts (createTransaction,                *)
(*                                      updateTransaction)                 *)
(*   src/src/lib/actions/account.ts     (bulkDeleteTransactions)           *)
(*                                                                         *)
(* Time.  A Date is an integer instant t = day * TicksPerDay + tod, where  *)
(* day counts days since 2024-01-01 and tod is the part of the day.        *)
(* Money is an integer number of cents.                                    *)
(***************************************************************************)
EXTENDS Integers, Sequences, FiniteSets, TLC

\* ------------------------------------------------------------------ bounds
TicksPerDay == 2
MaxElapsed == 2
MaxRows == 2
MaxEdits == 2
MaxEvents == 2
NumOriginals == 2
MaxAlertRuns == 2
LastRefDay == 730
BatchSize == 15
OtherBatch == 2
ThrottleStep == 30
MaxCalls == 3
MaxReportRows == 2

\* ------------------------------------------------------- program constants
AlertThreshold == 80
MaxAttempts == 2
ThrottleLimit == 10
ThrottlePeriod == 60

\* null / absent Date column
Null == -1

\* ---------------------------------------------------------------- calendar
\* JavaScript Date arithmetic on local calendar fields (months are 0-based
\* in the code; 1-based here, converted at the boundary).
IsLeap(y) == (y % 4 = 0 /\ y % 100 # 0) \/ y % 400 = 0

DaysInMonth(y, m) ==
  IF m = 2 THEN (IF IsLeap(y) THEN 29 ELSE 28)
  ELSE IF m \in {4, 6, 9, 11} THEN 30 ELSE 31

DaysInYear(y) == IF IsLeap(y) THEN 366 ELSE 365

RECURSIVE DaysBeforeYear(_)
DaysBeforeYear(y) ==
  IF y <= 2024 THEN 0 ELSE DaysBeforeYear(y - 1) + DaysInYear(y - 1)

RECURSIVE DaysBeforeMonth(_, _)
DaysBeforeMonth(y, m) ==
  IF m <= 1 THEN 0 ELSE DaysBeforeMonth(y, m - 1) + DaysInMonth(y, m - 1)

\* new Date(y, m, d): the month is normalised into 1..12 and a day past the
\* end of the month rolls over into the following month(s).
MakeDay(y, m, d) ==
  LET yy == y + ((m - 1) \div 12)
      mm == ((m - 1) % 12) + 1
  IN  DaysBeforeYear(yy) + DaysBeforeMonth(yy, mm) + (d - 1)

RECURSIVE YearOfDay(_, _)
YearOfDay(n, y) ==
  IF n < DaysInYear(y) THEN y ELSE YearOfDay(n - DaysInYear(y), y + 1)

RECURSIVE MonthOfRest(_, _, _)
MonthOfRest(r, y, m) ==
  IF r < DaysInMonth(y, m) THEN m
  ELSE MonthOfRest(r - DaysInMonth(y, m), y, m + 1)

DayOf(t) == t \div TicksPerDay
TimeOfDay(t) == t % TicksPerDay

getFullYear(t) == YearOfDay(DayOf(t), 2024)
getMonth(t) ==
  LET y == getFullYear(t)
  IN  MonthOfRest(DayOf(t) - DaysBeforeYear(y), y, 1)
getDate(t) ==
  LET y == getFullYear(t)
      m == getMonth(t)
  IN  DayOf(t) - DaysBeforeYear(y) - DaysBeforeMonth(y, m) + 1

\* Date with the calendar fields replaced, time of day kept (setDate,
\* setMonth, setFullYear).
WithFields(t, y, m, d) == MakeDay(y, m, d) * TicksPerDay + TimeOfDay(t)

Instant(y, m, d, tod) == MakeDay(y, m, d) * TicksPerDay + tod

Intervals == {"DAILY", "WEEKLY", "MONTHLY", "YEARLY"}
NoInterval == "NONE"

calculateNextRecurringDate_ShortWeek(date, interval) ==
  CASE interval = "DAILY" ->
         WithFields(date, getFullYear(date), getMonth(date), getDate(date) + 1)
    [] interval = "WEEKLY" ->
         WithFields(date, getFullYear(date), getMonth(date), getDate(date) + 6)
    [] interval = "MONTHLY" ->
         WithFields(date, getFullYear(date), getMonth(date) + 1, getDate(date))
    [] interval = "YEARLY" ->
         WithFields(date, getFullYear(date) + 1, getMonth(date), getDate(date))
    [] OTHER -> date

calculateNextRecurringDate(date, interval) ==
  CASE interval = "DAILY" ->
         WithFields(date, getFullYear(date), getMonth(date), getDate(date) + 1)
    [] interval = "WEEKLY" ->
         WithFields(date, getFullYear(date), getMonth(date), getDate(date) + 7)
    [] interval = "MONTHLY" ->
         WithFields(date, getFullYear(date), getMonth(date) + 1, getDate(date))
    [] interval = "YEARLY" ->
         WithFields(date, getFullYear(date) + 1, getMonth(date), getDate(date))
    [] OTHER -> date

isNewMonth(lastAlertDate, currentDate) ==
  \/ getMonth(lastAlertDate) # getMonth(currentDate)
  \/ getFullYear(lastAlertDate) # getFullYear(currentDate)

\* ------------------------------------------------------------------- store
VARIABLES
  clock,         \* new Date()
  transactions,  \* db.transaction: id -> row
  accounts,      \* db.account: id -> [userId, balance, isDefault]
  nextId,        \* next fresh transaction id
  scan,          \* the triggerRecurringTransactions run
  runs,          \* processRecurringTransaction runs, one per emitted event
  edits,         \* number of updateTransaction calls so far
  budgets,       \* db.budget: userId -> [amount, lastAlertSent]
  alertRun,      \* the checkBudgetAlerts run
  alerts,        \* the budget-alert emails handed to sendEmail, in order
  throttle,      \* the throttle of processRecurringTransaction, per userId
  calls,         \* server-action calls in progress
  reportRun,     \* the generateMonthlyReports run
  reports,       \* the monthly-report emails handed to sendEmail, in order
  cache          \* the "accounts" entry of each user in the Redis cache

budgetVars == <<budgets, alertRun, alerts>>

\* the state of the features that only read the ledger or stand beside it
featureVars == <<throttle, calls, reportRun, reports, cache>>

vars == <<clock, transactions, accounts, nextId, scan, runs, edits,
          budgets, alertRun, alerts, throttle, calls, reportRun, reports,
          cache>>

Users == {"u1", "u2"}
AccountIds == {"a1", "a2"}
Types == {"INCOME", "EXPENSE"}
Undefined == "UNDEFINED"

StartTime == Instant(2025, 2, 28, 0)

\* The balance each account was created with (cents).
OpeningBalance(a) == IF a = "a1" THEN 105000 ELSE 20000

Row(type, amount, accountId, userId, date, category, status, isRecurring, recurringInterval, nextRecurringDate, lastProcessed, recurringCopy) ==
  [type |-> type, amount |-> amount, accountId |-> accountId,
   userId |-> userId, date |-> date, category |-> category,
   status |-> status, isRecurring |-> isRecurring,
   recurringInterval |-> recurringInterval,
   nextRecurringDate |-> nextRecurringDate,
   lastProcessed |-> lastProcessed, recurringCopy |-> recurringCopy]

BlankRow ==
  Row("INCOME", 0, "a1", "u1", 0, "none", "PENDING", FALSE, NoInterval,
      Null, Null, FALSE)

Signed(type, amount) == IF type = "EXPENSE" THEN 0 - amount ELSE amount

RECURSIVE SumOver(_, _)
SumOver(S, f) ==
  IF S = {} THEN 0
  ELSE LET x == CHOOSE y \in S : TRUE
       IN  f[x] + SumOver(S \ {x}, f)

\* Signed sum of the rows of table tx that belong to account a.
LedgerSum(tx, a) ==
  LET ids == {i \in DOMAIN tx : tx[i].accountId = a}
  IN  SumOver(ids, [i \in ids |-> Signed(tx[i].type, tx[i].amount)])

\* ------------------------------------------------------ due-item predicates
\* where-clause of the scanner's findMany
ScanWhere_NoStatus(r, now) ==
  /\ r.isRecurring = TRUE
  /\ \/ r.lastProcessed = Null
     \/ (r.nextRecurringDate # Null /\ r.nextRecurringDate <= now)

ScanWhere(r, now) ==
  /\ r.isRecurring = TRUE
  /\ r.status = "COMPLETED"
  /\ \/ r.lastProcessed = Null
     \/ (r.nextRecurringDate # Null /\ r.nextRecurringDate <= now)

\* the processor's guard
isTransactionDue_Inverted(r, today) ==
  IF r.lastProcessed = Null THEN TRUE
  ELSE LET nextDue == IF r.nextRecurringDate = Null THEN today
                      ELSE r.nextRecurringDate
       IN  nextDue >= today

isTransactionDue(r, today) ==
  IF r.lastProcessed = Null THEN TRUE
  ELSE LET nextDue == IF r.nextRecurringDate = Null THEN today
                      ELSE r.nextRecurringDate
       IN  nextDue <= today

\* ---------------------------------------------------------- store writes
Db(tx, acc, nid) == [transactions |-> tx, accounts |-> acc, nextId |-> nid]

CreateWrite(row) == [op |-> "create", row |-> row]
IncrementWrite(accountId, by) ==
  [op |-> "increment", accountId |-> accountId, by |-> by]
\* tx.account.update with data {balance: <number>}
SetBalanceWrite(accountId, balance) ==
  [op |-> "set", accountId |-> accountId, balance |-> balance]
UpdateWrite(id, lastProcessed, nextRecurringDate) ==
  [op |-> "update", id |-> id, lastProcessed |-> lastProcessed,
   nextRecurringDate |-> nextRecurringDate]

\* One statement applied to the tables.
ApplyWrite(db, w) ==
  CASE w.op = "create" ->
         [db EXCEPT !.transactions = db.nextId :> w.row @@ @,
                    !.nextId = @ + 1]
    [] w.op = "increment" ->
         [db EXCEPT !.accounts[w.accountId].balance = @ + w.by]
    [] w.op = "set" ->
         [db EXCEPT !.accounts[w.accountId].balance = w.balance]
    [] w.op = "update" ->
         IF w.id \in DOMAIN db.transactions
         THEN [db EXCEPT !.transactions[w.id].lastProcessed = w.lastProcessed,
                         !.transactions[w.id].nextRecurringDate =
                            w.nextRecurringDate]
         ELSE db

RECURSIVE ApplyAll(_, _)
ApplyAll(db, ws) ==
  IF ws = <<>> THEN db ELSE ApplyAll(ApplyWrite(db, Head(ws)), Tail(ws))

\* A statement issued inside db.$transaction: invisible to the tables until
\* the transaction commits.  The result is the pair (tables, staged writes).
TxWrite_Autocommit(db, buf, w) == [db |-> ApplyWrite(db, w), buf |-> buf]

TxWrite(db, buf, w) == [db |-> db, buf |-> Append(buf, w)]

TxCommit(db, buf) == ApplyAll(db, buf)

\* ------------------------------------------------------- processor writes
\* the three statements of one re-fire, from the fetched row
\* the new row as a copy that keeps the recurrence fields of the original
OccurrenceRow_Recurring(t, now) ==
  Row(t.type, t.amount, t.accountId, t.userId, now, t.category,
      "COMPLETED", t.isRecurring, t.recurringInterval, t.nextRecurringDate,
      Null, TRUE)

OccurrenceRow(t, now) ==
  Row(t.type, t.amount, t.accountId, t.userId, now, t.category,
      "COMPLETED", FALSE, NoInterval, Null, Null, TRUE)

balanceChange_Unsigned(t) == t.amount

balanceChange(t) ==
  IF t.type = "EXPENSE" THEN 0 - t.amount ELSE t.amount

\* the balance written as a number computed from the balance read when the
\* statement is issued
RefireWrite_SetBalance(k, id, t, now) ==
  CASE k = 1 -> CreateWrite(OccurrenceRow(t, now))
    [] k = 2 -> SetBalanceWrite(t.accountId,
                  accounts[t.accountId].balance + balanceChange(t))
    [] k = 3 -> UpdateWrite(id, now,
                  calculateNextRecurringDate(now, t.recurringInterval))

RefireWrite(k, id, t, now) ==
  CASE k = 1 -> CreateWrite(OccurrenceRow(t, now))
    [] k = 2 -> IncrementWrite(t.accountId, balanceChange(t))
    [] k = 3 -> UpdateWrite(id, now,
                  calculateNextRecurringDate(now, t.recurringInterval))

\* ------------------------------------------------------- createTransaction
FormData(type, amount, date, category, accountId, isRecurring, recurringInterval) ==
  [type |-> type, amount |-> amount, date |-> date, category |-> category,
   accountId |-> accountId, isRecurring |-> isRecurring,
   recurringInterval |-> recurringInterval]

\* nextRecurringDate as createTransaction and updateTransaction compute it
FormNextDate(data) ==
  IF data.isRecurring /\ data.recurringInterval # Undefined
  THEN calculateNextRecurringDate(data.date, data.recurringInterval)
  ELSE Null

\* the row tx.transaction.create inserts (status takes the column default)
CreatedRow(data, userId) ==
  Row(data.type, data.amount, data.accountId, userId, data.date,
      data.category, "COMPLETED", data.isRecurring,
      IF data.recurringInterval = Undefined THEN NoInterval
      ELSE data.recurringInterval,
      FormNextDate(data), Null, FALSE)

\* ------------------------------------------------------------ initial rows
\* Rows as createTransaction left them before StartTime, all of user u1.
Templates ==
  << CreatedRow(FormData("EXPENSE", 5000, Instant(2025, 1, 28, 0), "rent",
                         "a1", TRUE, "MONTHLY"), "u1"),
     CreatedRow(FormData("INCOME", 2000, Instant(2025, 2, 27, 0), "salary",
                         "a2", TRUE, "DAILY"), "u1"),
     CreatedRow(FormData("EXPENSE", 2000, Instant(2025, 2, 27, 0), "food",
                         "a2", TRUE, Undefined), "u1"),
     CreatedRow(FormData("EXPENSE", 2000, Instant(2025, 2, 27, 0), "food",
                         "a1", FALSE, Undefined), "u1"),
     [CreatedRow(FormData("EXPENSE", 5000, Instant(2025, 2, 27, 0), "rent",
                          "a1", TRUE, "DAILY"), "u1")
        EXCEPT !.status = "PENDING"] >>

InitialBalance(tx, a) == OpeningBalance(a) + LedgerSum(tx, a)

InitAccounts(tx) ==
  [a \in AccountIds |->
     [userId |-> "u1", balance |-> InitialBalance(tx, a),
      isDefault |-> (a = "a1")]]

NoSnap == [found |-> FALSE, row |-> BlankRow]

\* db.budget of users who never set a budget amount worth an alert
NoBudgets == [u \in Users |-> [amount |-> 1000000, lastAlertSent |-> Null]]

IdleAlertRun(n) == [pc |-> "idle", todo |-> <<>>, attempts |-> 0, started |-> n]

\* no work item queued or started at the processor's throttle
IdleThrottle ==
  [u \in Users |->
     [size |-> 0, queued |-> 0, started |-> <<>>, elapsed |-> 0, first |-> 0]]

\* byCategory as getMonthlyStats seeds it
SeededCategories ==
  {"housing", "groceries", "transportation", "entertainment", "utilities"}

NoStats ==
  [totalExpenses |-> 0, totalIncome |-> 0,
   byCategory |-> [c \in SeededCategories |-> 0]]

NoResponse == [kind |-> "none", fenced |-> FALSE, body |-> "none"]

IdleReportRun ==
  [pc |-> "idle", todo |-> <<>>, user |-> "none", lastMonth |-> 0,
   stats |-> NoStats, response |-> NoResponse, insights |-> <<>>,
   attempts |-> 0]

\* no entry: getCache returns null
NoEntry ==
  [hit |-> FALSE,
   accounts |-> [a \in {} |-> [userId |-> "u1", balance |-> 0,
                              isDefault |-> FALSE]]]

EmptyCache == [u \in Users |-> NoEntry]

FeaturesIdle ==
  /\ throttle = IdleThrottle
  /\ calls = <<>>
  /\ reportRun = IdleReportRun
  /\ reports = <<>>
  /\ cache = EmptyCache

IdleScan == [pc |-> "idle", found |-> {}, base |-> 0, triggered |-> Null]

InitRows ==
  { tx \in [1..NumOriginals -> {Templates[k] : k \in 1..Len(Templates)}] :
      \A i \in 1..NumOriginals, j \in 1..NumOriginals :
        i < j =>
          \E k \in 1..Len(Templates) : \E l \in k..Len(Templates) :
            tx[i] = Templates[k] /\ tx[j] = Templates[l] }

Init ==
  /\ clock = StartTime
  /\ transactions \in InitRows
  /\ accounts = InitAccounts(transactions)
  /\ nextId = NumOriginals + 1
  /\ scan = IdleScan
  /\ runs = <<>>
  /\ edits = 0
  /\ budgets = NoBudgets
  /\ alertRun = IdleAlertRun(0)
  /\ alerts = <<>>
  /\ FeaturesIdle

\* ---------------------------------------------------------------- clock
InDbTransaction(r) == r.pc \in {"tx1", "tx2", "tx3"}

\* Time passes.  An open interactive transaction lasts far less than one
\* instant of the model (it times out after seconds), so the clock does not
\* advance while one is open.
Tick ==
  /\ clock - StartTime < MaxElapsed
  /\ \A d \in 1..Len(runs) : ~InDbTransaction(runs[d])
  /\ clock' = clock + 1
  /\ UNCHANGED <<transactions, accounts, nextId, scan, runs, edits,
                 budgetVars, featureVars>>

\* ------------------------------------------- triggerRecurringTransactions
\* step "fetch-recurring-transactions": the ids the findMany returns
FindDue(tx, now) == {i \in DOMAIN tx : ScanWhere(tx[i], now)}

RECURSIVE SeqOfSet(_)
SeqOfSet(S) ==
  IF S = {} THEN <<>>
  ELSE LET m == CHOOSE x \in S : \A y \in S : x <= y
       IN  <<m>> \o SeqOfSet(S \ {m})

\* the run an event starts
NewRun(id, userId, base) ==
  [transactionId |-> id, userId |-> userId, batch |-> base, pc |-> "queued",
   snap |-> NoSnap, buf |-> <<>>, attempts |-> 0, delay |-> 0,
   raced |-> FALSE, result |-> "none"]

\* events: one per found transaction, data {transactionId, userId}
Events(ids, found) ==
  LET q == SeqOfSet(ids)
  IN  [k \in 1..Len(q) |->
         NewRun(q[k], (CHOOSE e \in found : e.id = q[k]).userId, scan.base)]

Scan ==
  /\ scan.pc = "idle"
  /\ LET due == FindDue(transactions, clock)
     IN  /\ Len(runs) + Cardinality(due) <= MaxEvents
         /\ scan' = [pc |-> "fetched",
                     found |-> {[id |-> i, userId |-> transactions[i].userId] :
                                  i \in due},
                     base |-> Len(runs), triggered |-> Null]
  /\ UNCHANGED <<clock, transactions, accounts, nextId, runs, edits,
                 budgetVars, featureVars>>

\* inngest.send(events) accepted the whole batch; the run returns.
SendOk ==
  /\ scan.pc = "fetched"
  /\ Len(runs) + Cardinality(scan.found) <= MaxEvents
  /\ runs' = runs \o Events({e.id : e \in scan.found}, scan.found)
  /\ scan' = [IdleScan EXCEPT !.triggered = Cardinality(scan.found)]
  /\ UNCHANGED <<clock, transactions, accounts, nextId, edits, budgetVars,
                 featureVars>>

\* inngest.send(events) throws after the substrate took some of the events;
\* the run fails and is either retried (the memoized step result is reused)
\* or given up.
SendFail ==
  /\ scan.pc = "fetched"
  /\ scan.found # {}
  /\ \E accepted \in SUBSET {e.id : e \in scan.found} :
     \E retry \in BOOLEAN :
       /\ Len(runs) + Cardinality(accepted)
            + (IF retry THEN Cardinality(scan.found) ELSE 0) <= MaxEvents
       /\ runs' = runs \o Events(accepted, scan.found)
       /\ scan' = IF retry THEN scan ELSE IdleScan
  /\ UNCHANGED <<clock, transactions, accounts, nextId, edits, budgetVars,
                 featureVars>>

\* -------------------------------------------- processRecurringTransaction
CurrentDb == Db(transactions, accounts, nextId)

SetDb(db) ==
  /\ transactions' = db.transactions
  /\ accounts' = db.accounts
  /\ nextId' = db.nextId

\* the row looked up by its id alone
FindUnique_AnyUser(tx, id, userId) ==
  IF id \in DOMAIN tx
  THEN [found |-> TRUE, row |-> tx[id]]
  ELSE NoSnap

\* db.transaction.findUnique({where: {id, userId}})
FindUnique(tx, id, userId) ==
  IF id \in DOMAIN tx /\ tx[id].userId = userId
  THEN [found |-> TRUE, row |-> tx[id]]
  ELSE NoSnap

\* the guard of line 167: the event lacks transactionId or userId
NoUser == ""

MissingData(r) == r.transactionId = Null \/ r.userId = NoUser

\* the handler returns {error: "Missing required event data"}
Reject(d) ==
  /\ runs[d].pc = "queued"
  /\ MissingData(runs[d])
  /\ runs' = [runs EXCEPT ![d].pc = "done", ![d].result = "error"]
  /\ UNCHANGED <<clock, transactions, accounts, nextId, scan, edits,
                 budgetVars, featureVars>>

\* step.run("process-transaction") starts: the row is fetched.
Fetch(d) ==
  /\ runs[d].pc = "queued"
  /\ ~MissingData(runs[d])
  /\ runs' = [runs EXCEPT ![d].pc = "fetched",
                          ![d].snap = FindUnique(transactions,
                                        runs[d].transactionId, runs[d].userId),
                          ![d].raced = FALSE]
  /\ UNCHANGED <<clock, transactions, accounts, nextId, scan, edits,
                 budgetVars, featureVars>>

\* the guard of line 183
Skips(snap, now) == ~snap.found \/ ~isTransactionDue(snap.row, now)

\* The guard; a run that passes it opens db.$transaction and issues the
\* create statement.
Check(d) ==
  /\ runs[d].pc = "fetched"
  /\ IF Skips(runs[d].snap, clock)
     THEN /\ runs' = [runs EXCEPT ![d].pc = "done", ![d].snap = NoSnap,
                                  ![d].result = "skipped"]
          /\ UNCHANGED <<transactions, accounts, nextId>>
     ELSE LET r == TxWrite(CurrentDb, runs[d].buf,
                     RefireWrite(1, runs[d].transactionId,
                                 runs[d].snap.row, clock))
          IN  /\ SetDb(r.db)
              /\ runs' = [runs EXCEPT ![d].pc = "tx1", ![d].buf = r.buf]
  /\ UNCHANGED <<clock, scan, edits, budgetVars, featureVars>>

\* the second and third statement inside db.$transaction
Stage(d) ==
  /\ runs[d].pc \in {"tx1", "tx2"}
  /\ LET k == IF runs[d].pc = "tx1" THEN 2 ELSE 3
         r == TxWrite(CurrentDb, runs[d].buf,
                RefireWrite(k, runs[d].transactionId, runs[d].snap.row, clock))
     IN  /\ k = 3 => runs[d].transactionId \in DOMAIN transactions
         /\ SetDb(r.db)
         /\ runs' = [runs EXCEPT ![d].pc = IF k = 2 THEN "tx2" ELSE "tx3",
                                 ![d].buf = r.buf]
  /\ UNCHANGED <<clock, scan, edits, budgetVars, featureVars>>

Overlaps(r, id) ==
  r.transactionId = id /\ r.pc \in {"fetched", "tx1", "tx2", "tx3"}

\* db.$transaction commits; the step and the run succeed.  raced records
\* that a run of the same work item committed between another run's fetch
\* and its end.
Commit(d) ==
  /\ runs[d].pc = "tx3"
  /\ SetDb(TxCommit(CurrentDb, runs[d].buf))
  /\ runs' = [e \in 1..Len(runs) |->
                IF e = d
                THEN [runs[d] EXCEPT !.pc = "done", !.snap = NoSnap,
                                     !.buf = <<>>, !.result = "created"]
                ELSE IF Overlaps(runs[e], runs[d].transactionId)
                     THEN [runs[e] EXCEPT !.raced = TRUE]
                     ELSE runs[e]]
  /\ UNCHANGED <<clock, scan, edits, budgetVars, featureVars>>

\* what a failed step leaves of the tables and of its staged statements
Rollback_KeepsWrites(db, buf) == ApplyAll(db, buf)

Rollback(db, buf) == db

\* retryFunction: the delay, in milliseconds, before the retry that follows
\* the given attempt
RetryDelay(attempt) == (2 ^ attempt) * 1000

\* A store error or a crash inside the step: the open transaction is rolled
\* back and the step is retried from its start, up to MaxAttempts attempts.
Abort(d) ==
  /\ runs[d].pc \in {"fetched", "tx1", "tx2", "tx3"}
  /\ SetDb(Rollback(CurrentDb, runs[d].buf))
  /\ runs' = [runs EXCEPT
                ![d].pc = IF runs[d].attempts + 1 >= MaxAttempts
                          THEN "failed" ELSE "queued",
                ![d].attempts = @ + 1,
                ![d].delay = RetryDelay(runs[d].attempts + 1),
                ![d].snap = NoSnap,
                ![d].buf = <<>>,
                ![d].raced = FALSE]
  /\ UNCHANGED <<clock, scan, edits, budgetVars, featureVars>>

created(r) == r.pc = "done" /\ r.result = "created"

\* ------------------------------------------------------ updateTransaction
\* the row tx.transaction.update leaves: the form fields are overwritten,
\* an undefined field is left as it was, nextRecurringDate is recomputed.
UpdatedRow(original, data) ==
  [original EXCEPT
     !.type = data.type, !.amount = data.amount, !.date = data.date,
     !.category = data.category, !.accountId = data.accountId,
     !.isRecurring = data.isRecurring,
     !.recurringInterval = IF data.recurringInterval = Undefined THEN @
                           ELSE data.recurringInterval,
     !.nextRecurringDate = FormNextDate(data)]

netBalanceChange(original, data) ==
  Signed(data.type, data.amount) - Signed(original.type, original.amount)

UpdateTransaction(id, data) ==
  /\ id \in DOMAIN transactions
  /\ transactions' = [transactions EXCEPT ![id] = UpdatedRow(@, data)]
  /\ accounts' = [accounts EXCEPT ![data.accountId].balance =
                    @ + netBalanceChange(transactions[id], data)]
  /\ UNCHANGED <<clock, nextId, scan, runs, budgetVars, featureVars>>

\* the form of a row as the edit dialog loads it
FormOf(r) ==
  FormData(r.type, r.amount, r.date, r.category, r.accountId, r.isRecurring,
           IF r.recurringInterval = NoInterval THEN Undefined
           ELSE r.recurringInterval)

\* The user switches a recurring transaction to non-recurring.
StopRecurring ==
  \E id \in DOMAIN transactions :
    /\ transactions[id].isRecurring
    /\ ~transactions[id].recurringCopy
    /\ UpdateTransaction(id,
         [FormOf(transactions[id]) EXCEPT !.isRecurring = FALSE,
                                          !.recurringInterval = Undefined])
    /\ UNCHANGED edits

\* ------------------------------------------------------------- the engine
\* normal operation: scans, dispatches and deliveries, no failures
Next ==
  \/ Tick
  \/ Scan
  \/ SendOk
  \/ \E d \in 1..Len(runs) : Fetch(d)
  \/ \E d \in 1..Len(runs) : Check(d)
  \/ \E d \in 1..Len(runs) : Stage(d)
  \/ \E d \in 1..Len(runs) : Commit(d)

Spec == Init /\ [][Next]_vars

\* with store errors and crashes inside the processor's step
NextCrash ==
  \/ Tick
  \/ Scan
  \/ SendOk
  \/ \E d \in 1..Len(runs) : Fetch(d)
  \/ \E d \in 1..Len(runs) : Check(d)
  \/ \E d \in 1..Len(runs) : Stage(d)
  \/ \E d \in 1..Len(runs) : Commit(d)
  \/ \E d \in 1..Len(runs) : Abort(d)

CrashSpec == Init /\ [][NextCrash]_vars

\* with failures of the dispatch as well
NextFault ==
  \/ Tick
  \/ Scan
  \/ SendOk
  \/ SendFail
  \/ \E d \in 1..Len(runs) : Fetch(d)
  \/ \E d \in 1..Len(runs) : Check(d)
  \/ \E d \in 1..Len(runs) : Stage(d)
  \/ \E d \in 1..Len(runs) : Commit(d)
  \/ \E d \in 1..Len(runs) : Abort(d)

FaultSpec == Init /\ [][NextFault]_vars

\* an id no transaction has
UnknownId == 99

\* event data no scan emits: a field is missing, the transaction does not
\* exist, or it belongs to another user
InvalidEvents ==
  {[transactionId |-> Null, userId |-> "u1"]}
    \cup {[transactionId |-> i, userId |-> NoUser] : i \in DOMAIN transactions}
    \cup {[transactionId |-> UnknownId, userId |-> "u1"]}
    \cup {[transactionId |-> i, userId |-> "u2"] : i \in DOMAIN transactions}

\* an event "transaction.recurring.process" sent by something else than the
\* scan
DeliverInvalid ==
  /\ Len(runs) < MaxEvents
  /\ \E ev \in InvalidEvents :
       runs' = Append(runs, NewRun(ev.transactionId, ev.userId, Len(runs)))
  /\ UNCHANGED <<clock, transactions, accounts, nextId, scan, edits,
                 budgetVars, featureVars>>

\* the scan of StartTime and the processing of its items, with such events
\* arriving in between
NextInvalid ==
  \/ Scan
  \/ SendOk
  \/ DeliverInvalid
  \/ \E d \in 1..Len(runs) : Reject(d)
  \/ \E d \in 1..Len(runs) : Fetch(d)
  \/ \E d \in 1..Len(runs) : Check(d)
  \/ \E d \in 1..Len(runs) : Stage(d)
  \/ \E d \in 1..Len(runs) : Commit(d)

InvalidSpec == Init /\ [][NextInvalid]_vars

\* normal operation with a user editing transactions meanwhile
NextEdit ==
  \/ Tick
  \/ Scan
  \/ SendOk
  \/ \E d \in 1..Len(runs) : Fetch(d)
  \/ \E d \in 1..Len(runs) : Check(d)
  \/ \E d \in 1..Len(runs) : Stage(d)
  \/ \E d \in 1..Len(runs) : Commit(d)
  \/ StopRecurring

EditSpec == Init /\ [][NextEdit]_vars

\* ------------------------------------------------------- the user's ledger
Amounts == {2000, 5000}

\* createTransaction, from the account read to the commit
CreateTransaction(userId, data) ==
  /\ nextId <= MaxRows
  /\ data.accountId \in DOMAIN accounts
  /\ accounts[data.accountId].userId = userId
  /\ LET newBalance == accounts[data.accountId].balance
                         + Signed(data.type, data.amount)
     IN  /\ transactions' = nextId :> CreatedRow(data, userId) @@ transactions
         /\ nextId' = nextId + 1
         /\ accounts' = [accounts EXCEPT ![data.accountId].balance = newBalance]
  /\ UNCHANGED <<clock, scan, runs, edits, budgetVars, featureVars>>

\* the per-account increments bulkDeleteTransactions computes from the rows
\* it read
accountBalanceChanges(tx, ids) ==
  [a \in {tx[i].accountId : i \in ids} |->
     LET mine == {i \in ids : tx[i].accountId = a}
     IN  SumOver(mine, [i \in mine |-> 0 - Signed(tx[i].type, tx[i].amount)])]

bulkDeleteTransactions(userId, transactionIds) ==
  LET found == {i \in transactionIds \cap DOMAIN transactions :
                  transactions[i].userId = userId}
      changes == accountBalanceChanges(transactions, found)
  IN  /\ transactions' = [i \in DOMAIN transactions \ found |-> transactions[i]]
      /\ accounts' = [a \in DOMAIN accounts |->
                        IF a \in DOMAIN changes
                        THEN [accounts[a] EXCEPT !.balance = @ + changes[a]]
                        ELSE accounts[a]]
      /\ UNCHANGED <<clock, nextId, scan, runs, edits, budgetVars,
                     featureVars>>

\* One whole processing pass for one transaction the scan returns: its work
\* item is emitted, delivered once and processed to the end.
Refire(id) ==
  /\ id \in FindDue(transactions, clock)
  /\ nextId <= MaxRows
  /\ LET snap == FindUnique(transactions, id, transactions[id].userId)
     IN  /\ ~Skips(snap, clock)
         /\ SetDb(ApplyAll(CurrentDb,
                    <<RefireWrite(1, id, snap.row, clock),
                      RefireWrite(2, id, snap.row, clock),
                      RefireWrite(3, id, snap.row, clock)>>))
  /\ UNCHANGED <<clock, scan, runs, edits, budgetVars, featureVars>>

CreateInputs ==
  { FormData(type, amount, StartTime, "food", a, rec,
             IF rec THEN "DAILY" ELSE Undefined) :
      type \in Types, amount \in Amounts, a \in AccountIds, rec \in BOOLEAN }

OtherOf(S, x) == CHOOSE y \in S : y # x

\* the edits of one field of a row
UpdateInputs(r) ==
  { [FormOf(r) EXCEPT !.amount = OtherOf(Amounts, r.amount)],
    [FormOf(r) EXCEPT !.type = OtherOf(Types, r.type)],
    [FormOf(r) EXCEPT !.accountId = OtherOf(AccountIds, r.accountId)] }

InitLedger ==
  /\ clock = StartTime
  /\ transactions = << >>
  /\ accounts = InitAccounts(transactions)
  /\ nextId = 1
  /\ scan = IdleScan
  /\ runs = <<>>
  /\ edits = 0
  /\ budgets = NoBudgets
  /\ alertRun = IdleAlertRun(0)
  /\ alerts = <<>>
  /\ FeaturesIdle

NextLedger ==
  \/ \E data \in CreateInputs : CreateTransaction("u1", data)
  \/ \E id \in DOMAIN transactions :
       \E data \in UpdateInputs(transactions[id]) :
         /\ edits < MaxEdits
         /\ UpdateTransaction(id, data)
         /\ edits' = edits + 1
  \/ \E ids \in SUBSET DOMAIN transactions :
       ids # {} /\ bulkDeleteTransactions("u1", ids)
  \/ \E id \in DOMAIN transactions : Refire(id)

LedgerSpec == InitLedger /\ [][NextLedger]_vars

\* ------------------------------------------------------ checkBudgetAlerts
BudgetOrder == <<"u1", "u2">>
NoAccount == "none"

\* budget.user.accounts[0] of the include {accounts: {where: {isDefault}}}
DefaultAccountOf(acc, userId) ==
  LET mine == {a \in DOMAIN acc : acc[a].userId = userId /\ acc[a].isDefault}
  IN  IF mine = {} THEN NoAccount ELSE CHOOSE a \in mine : TRUE

\* step "fetch-budgets": every budget with its user's default accounts, as
\* the run keeps it for the rest of the function
FetchedBudgets(bud, acc) ==
  [k \in 1..Len(BudgetOrder) |->
     [userId |-> BudgetOrder[k],
      amount |-> bud[BudgetOrder[k]].amount,
      lastAlertSent |-> bud[BudgetOrder[k]].lastAlertSent,
      defaultAccount |-> DefaultAccountOf(acc, BudgetOrder[k])]]

FetchBudgets ==
  /\ alertRun.pc = "idle"
  /\ alertRun.started < MaxAlertRuns
  /\ alertRun' = [pc |-> "loop", todo |-> FetchedBudgets(budgets, accounts),
                  attempts |-> 0, started |-> alertRun.started + 1]
  /\ UNCHANGED <<clock, transactions, accounts, nextId, scan, runs, edits,
                 budgets, alerts, featureVars>>

\* the run after the loop body for the first budget of todo ended
AfterBudget(run) ==
  IF Len(run.todo) <= 1 THEN IdleAlertRun(run.started)
  ELSE [run EXCEPT !.todo = Tail(@), !.attempts = 0]

\* "if (!defaultAccount) continue"
SkipBudget ==
  /\ alertRun.pc = "loop"
  /\ Head(alertRun.todo).defaultAccount = NoAccount
  /\ alertRun' = AfterBudget(alertRun)
  /\ UNCHANGED <<clock, transactions, accounts, nextId, scan, runs, edits,
                 budgets, alerts, featureVars>>

\* expenses._sum.amount of the aggregate: EXPENSE rows of the user in the
\* default account dated at or after startDate (now with the day set to 1)
totalExpenses(tx, userId, accountId, now) ==
  LET startDate == WithFields(now, getFullYear(now), getMonth(now), 1)
      ids == {i \in DOMAIN tx : /\ tx[i].userId = userId
                                /\ tx[i].accountId = accountId
                                /\ tx[i].type = "EXPENSE"
                                /\ tx[i].date >= startDate}
  IN  SumOver(ids, [i \in ids |-> tx[i].amount])

\* (totalExpenses / budgetAmount) * 100 >= 80, for a positive budgetAmount
percentageReached_Above(total, budgetAmount) ==
  total * 100 > AlertThreshold * budgetAmount

percentageReached(total, budgetAmount) ==
  total * 100 >= AlertThreshold * budgetAmount

\* the condition of lines 70-74, on the budget as fetch-budgets returned it
shouldAlert(tx, budget, now) ==
  /\ percentageReached(
       totalExpenses(tx, budget.userId, budget.defaultAccount, now),
       budget.amount)
  /\ \/ budget.lastAlertSent = Null
     \/ isNewMonth(budget.lastAlertSent, now)

Email(userId, now) == [user |-> userId, at |-> now]

\* step "check-budget-<id>" runs to its end
CheckBudget ==
  /\ alertRun.pc = "loop"
  /\ LET budget == Head(alertRun.todo)
     IN  /\ budget.defaultAccount # NoAccount
         /\ IF shouldAlert(transactions, budget, clock)
            THEN /\ alerts' = Append(alerts, Email(budget.userId, clock))
                 /\ budgets' = [budgets EXCEPT
                                  ![budget.userId].lastAlertSent = clock]
            ELSE UNCHANGED <<alerts, budgets>>
  /\ alertRun' = AfterBudget(alertRun)
  /\ UNCHANGED <<clock, transactions, accounts, nextId, scan, runs, edits,
                 featureVars>>

\* step "check-budget-<id>" fails after sendEmail returned and before
\* db.budget.update took effect (store error or crash): the step is executed
\* again on the budget fetch-budgets returned, up to MaxAttempts attempts.
CheckBudgetFail ==
  /\ alertRun.pc = "loop"
  /\ LET budget == Head(alertRun.todo)
     IN  /\ budget.defaultAccount # NoAccount
         /\ shouldAlert(transactions, budget, clock)
         /\ alerts' = Append(alerts, Email(budget.userId, clock))
  /\ alertRun' = IF alertRun.attempts + 1 >= MaxAttempts
                 THEN IdleAlertRun(alertRun.started)
                 ELSE [alertRun EXCEPT !.attempts = @ + 1]
  /\ UNCHANGED <<clock, transactions, accounts, nextId, scan, runs, edits,
                 budgets, featureVars>>

\* the user records an expense dated now in the default account
ExpenseAmounts == {2000, 8500}

CreateExpense ==
  \E amount \in ExpenseAmounts :
    CreateTransaction("u1", FormData("EXPENSE", amount, clock, "food", "a1",
                                     FALSE, Undefined))

\* Budgets of u1, who owns both accounts, and of u2, who has no account.
\* Budget amounts that put an expense of 85.00 at 85 %, 80 % and 68 %.
BudgetAmounts == {10000, 10625, 12500}

\* lastAlertSent: absent, the previous month, the same month, the same month
\* of the previous year
LastAlerts ==
  {Null, Instant(2025, 1, 31, 0), Instant(2025, 2, 10, 0),
   Instant(2024, 2, 10, 0)}

InitBudget ==
  /\ clock = StartTime
  /\ transactions =
       1 :> CreatedRow(FormData("EXPENSE", 8500, Instant(2025, 2, 20, 0),
                                "rent", "a1", FALSE, Undefined), "u1")
  /\ accounts = InitAccounts(transactions)
  /\ nextId = 2
  /\ scan = IdleScan
  /\ runs = <<>>
  /\ edits = 0
  /\ \E amount \in BudgetAmounts : \E last \in LastAlerts :
       budgets = [u \in Users |->
                    IF u = "u1"
                    THEN [amount |-> amount, lastAlertSent |-> last]
                    ELSE [amount |-> 10000, lastAlertSent |-> Null]]
  /\ alertRun = IdleAlertRun(0)
  /\ alerts = <<>>
  /\ FeaturesIdle

\* the evaluator in normal operation
NextBudget ==
  \/ Tick
  \/ CreateExpense
  \/ FetchBudgets
  \/ SkipBudget
  \/ CheckBudget

BudgetSpec == InitBudget /\ [][NextBudget]_vars

\* with failures between the notification and the update of lastAlertSent
NextBudgetFault ==
  \/ Tick
  \/ CreateExpense
  \/ FetchBudgets
  \/ SkipBudget
  \/ CheckBudget
  \/ CheckBudgetFail

BudgetFaultSpec == InitBudget /\ [][NextBudgetFault]_vars

\* the record of an email for which sendEmail returned {success: false}
Undelivered(email) == [user |-> email.user, at |-> email.at, failed |-> TRUE]

\* step "check-budget-<id>" runs to its end with a sendEmail that caught an
\* error of the mail service and returned {success: false}: the step does
\* not look at the result and goes on to db.budget.update
CheckBudgetUndelivered ==
  /\ alertRun.pc = "loop"
  /\ LET budget == Head(alertRun.todo)
     IN  /\ budget.defaultAccount # NoAccount
         /\ shouldAlert(transactions, budget, clock)
         /\ alerts' = Append(alerts, Undelivered(Email(budget.userId, clock)))
         /\ budgets' = [budgets EXCEPT
                          ![budget.userId].lastAlertSent = clock]
  /\ alertRun' = AfterBudget(alertRun)
  /\ UNCHANGED <<clock, transactions, accounts, nextId, scan, runs, edits,
                 featureVars>>

\* with failures of the mail service
NextUndelivered ==
  \/ Tick
  \/ CreateExpense
  \/ FetchBudgets
  \/ SkipBudget
  \/ CheckBudget
  \/ CheckBudgetUndelivered

UndeliveredSpec == InitBudget /\ [][NextUndelivered]_vars

\* dates of an expense around the borders of the evaluator's window: the
\* last instant of January, the first and the second instant of 1 February,
\* 20 February, and 1 March, which StartTime has not reached
WindowDates ==
  {Instant(2025, 1, 31, 1), Instant(2025, 2, 1, 0), Instant(2025, 2, 1, 1),
   Instant(2025, 2, 20, 0), Instant(2025, 3, 1, 0)}

\* u1 has a budget of 100.00 and one expense of 85.00 in the default account
InitWindow ==
  /\ clock = StartTime
  /\ \E date \in WindowDates :
       transactions =
         1 :> CreatedRow(FormData("EXPENSE", 8500, date, "rent", "a1", FALSE,
                                  Undefined), "u1")
  /\ accounts = InitAccounts(transactions)
  /\ nextId = 2
  /\ scan = IdleScan
  /\ runs = <<>>
  /\ edits = 0
  /\ budgets = [u \in Users |-> [amount |-> 10000, lastAlertSent |-> Null]]
  /\ alertRun = IdleAlertRun(0)
  /\ alerts = <<>>
  /\ FeaturesIdle

WindowSpec == InitWindow /\ [][NextBudget]_vars

\* ------------------------------------------------ the recurrence calculator
\* reference dates: every instant of the days 2024-01-01 .. LastRefDay
RefDates ==
  {d * TicksPerDay + tod : d \in 0..LastRefDay, tod \in 0..(TicksPerDay - 1)}

\* createTransaction of a recurring transaction in an empty table: the
\* calculator is applied to the date of the form
CreateRecurring ==
  /\ nextId = 1
  /\ \E date \in RefDates : \E interval \in Intervals :
       CreateTransaction("u1", FormData("EXPENSE", 2000, date, "rent", "a1",
                                        TRUE, interval))

CalcSpec == InitLedger /\ [][CreateRecurring]_vars

\* ------------------------------------------- recurring rows and their edits
\* transactions are created, re-fired and switched to non-recurring
NextRecur ==
  \/ \E data \in CreateInputs : CreateTransaction("u1", data)
  \/ \E id \in DOMAIN transactions : Refire(id)
  \/ StopRecurring

RecurSpec == InitLedger /\ [][NextRecur]_vars

\* --------------------------------- the throttle of the processor's runs
\* throttle[u]: size, the work items of user u dispatched; queued, those
\* not yet started; started, the age in seconds of every start of the last
\* ThrottlePeriod seconds, oldest first; elapsed, the seconds since the
\* dispatch (up to ThrottlePeriod); first, the starts made while elapsed was
\* below ThrottlePeriod.

\* throttle.key: "event.data.userId"
ThrottleKey_Global(userId) == "all"

ThrottleKey(userId) == userId

\* the starts of the last ThrottlePeriod seconds that count against the
\* key of user u
WindowCount(u) ==
  LET same == {v \in Users : ThrottleKey(v) = ThrottleKey(u)}
  IN  SumOver(same, [v \in same |-> Len(throttle[v].started)])

\* the substrate admits a start while fewer than ThrottleLimit runs of the
\* key started within the period
Admits(u) == WindowCount(u) < ThrottleLimit

BatchOf(u) == IF u = "u1" THEN BatchSize ELSE OtherBatch

\* the dispatcher emits the work items of the due transactions of user u
Dispatch(u) ==
  /\ throttle[u].size = 0
  /\ throttle' = [throttle EXCEPT ![u].size = BatchOf(u),
                                  ![u].queued = BatchOf(u)]
  /\ UNCHANGED <<clock, transactions, accounts, nextId, scan, runs, edits,
                 budgetVars, calls, reportRun, reports, cache>>

\* a queued work item of user u is started
StartItem(u) ==
  /\ throttle[u].queued > 0
  /\ Admits(u)
  /\ throttle' = [throttle EXCEPT
                    ![u].queued = @ - 1,
                    ![u].started = Append(@, 0),
                    ![u].first = IF throttle[u].elapsed < ThrottlePeriod
                                 THEN @ + 1 ELSE @]
  /\ UNCHANGED <<clock, transactions, accounts, nextId, scan, runs, edits,
                 budgetVars, calls, reportRun, reports, cache>>

RECURSIVE Aged(_)
Aged(ages) ==
  IF ages = <<>> THEN <<>>
  ELSE IF Head(ages) + ThrottleStep >= ThrottlePeriod THEN Aged(Tail(ages))
       ELSE <<Head(ages) + ThrottleStep>> \o Aged(Tail(ages))

\* ThrottleStep seconds pass
ThrottleTick ==
  /\ throttle' =
       [u \in Users |->
          [throttle[u] EXCEPT
             !.started = Aged(@),
             !.elapsed = IF throttle[u].size = 0 THEN 0
                         ELSE IF @ + ThrottleStep >= ThrottlePeriod
                              THEN ThrottlePeriod ELSE @ + ThrottleStep]]
  /\ throttle' # throttle
  /\ UNCHANGED <<clock, transactions, accounts, nextId, scan, runs, edits,
                 budgetVars, calls, reportRun, reports, cache>>

NextThrottle ==
  \/ \E u \in Users : Dispatch(u)
  \/ \E u \in Users : StartItem(u)
  \/ ThrottleTick

\* the substrate starts an admitted item, and time passes
ThrottleSpec ==
  /\ InitLedger
  /\ [][NextThrottle]_vars
  /\ WF_vars(ThrottleTick)
  /\ \A u \in Users : WF_vars(StartItem(u))

\* ------------------------------------ createAccount, toggleDefaultAccount
NoAccounts ==
  [a \in {} |-> [userId |-> "u1", balance |-> 0, isDefault |-> FALSE]]

AccountsOf(acc, userId) == {a \in DOMAIN acc : acc[a].userId = userId}

\* a call enters: createAccount(data) with data.isDefault, or
\* toggleDefaultAccount(accountId)
NewCall(op, userId, accountId, isDefault) ==
  [op |-> op, userId |-> userId, accountId |-> accountId,
   isDefault |-> isDefault, shouldBeDefault |-> FALSE, unset |-> {},
   pc |-> IF op = "create" THEN "start" ELSE "setDefault"]

CallCreateAccount ==
  /\ Len(calls) < MaxCalls
  /\ \E u \in Users : \E isDefault \in BOOLEAN :
       calls' = Append(calls, NewCall("create", u, NoAccount, isDefault))
  /\ UNCHANGED <<clock, transactions, accounts, nextId, scan, runs, edits,
                 budgetVars, throttle, reportRun, reports, cache>>

CallToggleDefaultAccount ==
  /\ Len(calls) < MaxCalls
  /\ \E a \in DOMAIN accounts :
       calls' = Append(calls, NewCall("toggle", accounts[a].userId, a, TRUE))
  /\ UNCHANGED <<clock, transactions, accounts, nextId, scan, runs, edits,
                 budgetVars, throttle, reportRun, reports, cache>>

\* createAccount reads the user's accounts and decides shouldBeDefault
ReadExisting(c) ==
  /\ calls[c].pc = "start"
  /\ calls' = [calls EXCEPT
                 ![c].shouldBeDefault =
                    (AccountsOf(accounts, calls[c].userId) = {})
                      \/ calls[c].isDefault,
                 ![c].pc = "read"]
  /\ UNCHANGED <<clock, transactions, accounts, nextId, scan, runs, edits,
                 budgetVars, throttle, reportRun, reports, cache>>

\* db.account.create; setDefaultAccount follows when shouldBeDefault
InsertAccount(c) ==
  /\ calls[c].pc = "read"
  /\ AccountIds \ DOMAIN accounts # {}
  /\ LET id == CHOOSE a \in AccountIds \ DOMAIN accounts : TRUE
     IN  /\ accounts' =
               [a \in DOMAIN accounts \cup {id} |->
                  IF a = id
                  THEN [userId |-> calls[c].userId,
                        balance |-> OpeningBalance(id),
                        isDefault |-> calls[c].shouldBeDefault]
                  ELSE accounts[a]]
         /\ calls' = [calls EXCEPT
                        ![c].accountId = id,
                        ![c].pc = IF calls[c].shouldBeDefault
                                  THEN "setDefault" ELSE "done"]
  /\ UNCHANGED <<clock, transactions, nextId, scan, runs, edits,
                 budgetVars, throttle, reportRun, reports, cache>>

\* setDefaultAccount, first statement of its db.$transaction: the updateMany
\* selects the user's other accounts that are default now
UnsetOthers(c) ==
  /\ calls[c].pc = "setDefault"
  /\ calls' = [calls EXCEPT
                 ![c].unset = {a \in AccountsOf(accounts, calls[c].userId) :
                                 a # calls[c].accountId /\ accounts[a].isDefault},
                 ![c].pc = "unset"]
  /\ UNCHANGED <<clock, transactions, accounts, nextId, scan, runs, edits,
                 budgetVars, throttle, reportRun, reports, cache>>

\* setDefaultAccount, second statement and commit
SetDefault(c) ==
  /\ calls[c].pc = "unset"
  /\ accounts' = [a \in DOMAIN accounts |->
                    IF a \in calls[c].unset
                    THEN [accounts[a] EXCEPT !.isDefault = FALSE]
                    ELSE IF a = calls[c].accountId
                         THEN [accounts[a] EXCEPT !.isDefault = TRUE]
                         ELSE accounts[a]]
  /\ calls' = [calls EXCEPT ![c].pc = "done", ![c].unset = {}]
  /\ UNCHANGED <<clock, transactions, nextId, scan, runs, edits,
                 budgetVars, throttle, reportRun, reports, cache>>

InitAccountCalls ==
  /\ clock = StartTime
  /\ transactions = << >>
  /\ accounts = NoAccounts
  /\ nextId = 1
  /\ scan = IdleScan
  /\ runs = <<>>
  /\ edits = 0
  /\ budgets = NoBudgets
  /\ alertRun = IdleAlertRun(0)
  /\ alerts = <<>>
  /\ FeaturesIdle

NextAccountCalls ==
  \/ CallCreateAccount
  \/ CallToggleDefaultAccount
  \/ \E c \in 1..Len(calls) : ReadExisting(c)
  \/ \E c \in 1..Len(calls) : InsertAccount(c)
  \/ \E c \in 1..Len(calls) : UnsetOthers(c)
  \/ \E c \in 1..Len(calls) : SetDefault(c)

AccountSpec == InitAccountCalls /\ [][NextAccountCalls]_vars

\* --------------------------------------------------- generateMonthlyReports
\* the cron fires on the first day of the month at 00:00
ReportTime == Instant(2025, 3, 1, 0)

\* dates around the borders of February 2025
ReportDates ==
  << Instant(2025, 1, 31, 1), Instant(2025, 2, 1, 0), Instant(2025, 2, 28, 0),
     Instant(2025, 2, 28, 1), Instant(2025, 3, 1, 0) >>

\* type, category and amount of the rows; "" is a category left empty
ReportKinds ==
  << [type |-> "EXPENSE", category |-> "groceries", amount |-> 1000],
     [type |-> "EXPENSE", category |-> "travel", amount |-> 2500],
     [type |-> "EXPENSE", category |-> "", amount |-> 700],
     [type |-> "INCOME", category |-> "groceries", amount |-> 4000] >>

UserList == <<"u1", "u2">>

\* every user has one account
ReportAccountOf(userId) == IF userId = "u1" THEN "a1" ELSE "a2"

ReportCodes == 0..(Len(UserList) * Len(ReportDates) * Len(ReportKinds) - 1)

\* the row createTransaction stored for the k-th combination of user, date
\* and kind
ReportRow(k) ==
  LET userId == UserList[(k % Len(UserList)) + 1]
      date == ReportDates[((k \div Len(UserList)) % Len(ReportDates)) + 1]
      kind == ReportKinds[(k \div (Len(UserList) * Len(ReportDates))) + 1]
  IN  CreatedRow(FormData(kind.type, kind.amount, date, kind.category,
                          ReportAccountOf(userId), FALSE, Undefined), userId)

ReportTables ==
  { [i \in 1..MaxReportRows |-> ReportRow(ks[i])] :
      ks \in { f \in [1..MaxReportRows -> ReportCodes] :
                 \A i \in 1..(MaxReportRows - 1) : f[i] <= f[i + 1] } }

ReportAccounts(tx) ==
  [a \in AccountIds |->
     [userId |-> IF a = "a1" THEN "u1" ELSE "u2",
      balance |-> InitialBalance(tx, a), isDefault |-> TRUE]]

\* lastMonth.setMonth(lastMonth.getMonth() - 1)
LastMonthOf(now) ==
  WithFields(now, getFullYear(now), getMonth(now) - 1, getDate(now))

categoryOf(t) == IF t.category = "" THEN "uncategorized" ELSE t.category

AmountSum(tx, ids) == SumOver(ids, [i \in ids |-> tx[i].amount])

getMonthlyStats_AllUsers(tx, userId, month) ==
  LET startDate == Instant(getFullYear(month), getMonth(month), 1, 0)
      endDate == Instant(getFullYear(month), getMonth(month) + 1, 0, 0)
      found == {i \in DOMAIN tx :
                  tx[i].date >= startDate /\ tx[i].date <= endDate}
      expenses == {i \in found : tx[i].type = "EXPENSE"}
      keys == SeededCategories \cup {categoryOf(tx[i]) : i \in expenses}
  IN  [totalExpenses |-> AmountSum(tx, expenses),
       totalIncome |-> AmountSum(tx, found \ expenses),
       byCategory |->
         [c \in keys |->
            AmountSum(tx, {i \in expenses : categoryOf(tx[i]) = c})]]

getMonthlyStats(tx, userId, month) ==
  LET startDate == Instant(getFullYear(month), getMonth(month), 1, 0)
      endDate == Instant(getFullYear(month), getMonth(month) + 1, 0, 0)
      found == {i \in DOMAIN tx :
                  /\ tx[i].userId = userId
                  /\ tx[i].date >= startDate
                  /\ tx[i].date <= endDate}
      expenses == {i \in found : tx[i].type = "EXPENSE"}
      keys == SeededCategories \cup {categoryOf(tx[i]) : i \in expenses}
  IN  [totalExpenses |-> AmountSum(tx, expenses),
       totalIncome |-> AmountSum(tx, found \ expenses),
       byCategory |->
         [c \in keys |->
            AmountSum(tx, {i \in expenses : categoryOf(tx[i]) = c})]]

\* what model.generateContent does: it throws (an error, or a timeout of the
\* request), or it answers with a text, possibly inside a ``` fence, whose
\* body is a JSON array of three strings, another JSON value, or no JSON
Responses ==
  {[kind |-> k, fenced |-> FALSE, body |-> "none"] : k \in {"error", "timeout"}}
    \cup {[kind |-> "text", fenced |-> f, body |-> b] :
            f \in BOOLEAN, b \in {"array", "object", "garbage"}}

Threw(response) == response.kind \in {"error", "timeout"}

\* text.replace(/```(?:json)?\n?/g, "").trim()
cleanedText(response) == [response EXCEPT !.fenced = FALSE]

Parses(text) == text.body \in {"array", "object"}

\* JSON.parse of a text that is JSON
JSONparse(text) ==
  IF text.body = "array" THEN <<"insight 1", "insight 2", "insight 3">>
  ELSE <<"{...}">>

FallbackInsights ==
  << "Your highest expense category this month might need attention.",
     "Consider setting up a budget for better financial management.",
     "Track your recurring expenses to identify potential savings." >>

\* no catch around JSON.parse: the text is returned as it came
generateFinancialInsights_NoCatch(response) ==
  IF Threw(response) THEN FallbackInsights
  ELSE IF Parses(cleanedText(response)) THEN JSONparse(cleanedText(response))
       ELSE <<"garbage">>

generateFinancialInsights(response) ==
  IF Threw(response) THEN FallbackInsights
  ELSE IF Parses(cleanedText(response)) THEN JSONparse(cleanedText(response))
       ELSE FallbackInsights

\* step fetch-users
StartReports ==
  /\ reportRun.pc = "idle"
  /\ reportRun' = [IdleReportRun EXCEPT !.pc = "stats", !.todo = UserList]
  /\ UNCHANGED <<clock, transactions, accounts, nextId, scan, runs, edits,
                 budgetVars, throttle, calls, reports, cache>>

\* step generate-report-<user>: lastMonth and getMonthlyStats
ComputeStats ==
  /\ reportRun.pc = "stats"
  /\ LET user == Head(reportRun.todo)
         lastMonth == LastMonthOf(clock)
     IN  reportRun' = [reportRun EXCEPT
                         !.user = user, !.lastMonth = lastMonth,
                         !.stats = getMonthlyStats(transactions, user, lastMonth),
                         !.pc = "insights"]
  /\ UNCHANGED <<clock, transactions, accounts, nextId, scan, runs, edits,
                 budgetVars, throttle, calls, reports, cache>>

\* generateFinancialInsights(monthName, stats)
GenerateInsights ==
  /\ reportRun.pc = "insights"
  /\ \E response \in Responses :
       reportRun' = [reportRun EXCEPT
                       !.response = response,
                       !.insights = generateFinancialInsights(response),
                       !.pc = "send"]
  /\ UNCHANGED <<clock, transactions, accounts, nextId, scan, runs, edits,
                 budgetVars, throttle, calls, reports, cache>>

\* the insight call of the report failed: it threw or its text is no JSON
Failed(response) == Threw(response) \/ ~Parses(cleanedText(response))

\* sendEmail of the monthly-report template, then the next user
SendReport ==
  /\ reportRun.pc = "send"
  /\ reports' = Append(reports,
                       [to |-> reportRun.user,
                        month |-> getMonth(reportRun.lastMonth),
                        year |-> getFullYear(reportRun.lastMonth),
                        stats |-> reportRun.stats,
                        insights |-> reportRun.insights,
                        failed |-> Failed(reportRun.response)])
  /\ reportRun' = [IdleReportRun EXCEPT
                     !.todo = Tail(reportRun.todo),
                     !.pc = IF Tail(reportRun.todo) = <<>>
                            THEN "done" ELSE "stats"]
  /\ UNCHANGED <<clock, transactions, accounts, nextId, scan, runs, edits,
                 budgetVars, throttle, calls, cache>>

InitReport ==
  /\ clock = ReportTime
  /\ transactions \in ReportTables
  /\ accounts = ReportAccounts(transactions)
  /\ nextId = MaxReportRows + 1
  /\ scan = IdleScan
  /\ runs = <<>>
  /\ edits = 0
  /\ budgets = NoBudgets
  /\ alertRun = IdleAlertRun(0)
  /\ alerts = <<>>
  /\ FeaturesIdle

NextReport ==
  \/ StartReports
  \/ ComputeStats
  \/ GenerateInsights
  \/ SendReport

ReportSpec == InitReport /\ [][NextReport]_vars

\* The store fails inside step generate-report-<user> (the findMany of
\* getMonthlyStats throws): the step is executed again, up to MaxAttempts
\* attempts; then step.run throws into the loop, which has no try/catch, and
\* the function run fails.
ReportStepFail ==
  /\ reportRun.pc = "stats"
  /\ reportRun' = IF reportRun.attempts + 1 >= MaxAttempts
                  THEN [reportRun EXCEPT !.pc = "failed", !.attempts = @ + 1]
                  ELSE [reportRun EXCEPT !.attempts = @ + 1]
  /\ UNCHANGED <<clock, transactions, accounts, nextId, scan, runs, edits,
                 budgetVars, throttle, calls, reports, cache>>

NextReportFault ==
  \/ StartReports
  \/ ComputeStats
  \/ GenerateInsights
  \/ SendReport
  \/ ReportStepFail

ReportFaultSpec == InitReport /\ [][NextReportFault]_vars

\* ------------------------------------------- server actions in progress
\* createTransaction, updateTransaction, bulkDeleteTransactions and
\* getUserAccounts as the sequences of store and cache operations they are;
\* a call is at "start", after its read at "read", after its commit at
\* "committed", after its return at "done".
NoForm == FormData("EXPENSE", 0, 0, "", "a1", FALSE, Undefined)

NoChanges == [a \in {} |-> 0]

LedgerCall(op, userId, id, ids, data) ==
  [op |-> op, userId |-> userId, pc |-> "start", id |-> id, ids |-> ids,
   data |-> data, newBalance |-> 0, original |-> BlankRow,
   changes |-> NoChanges, view |-> NoEntry.accounts]

\* the signed-in users: those who own an account
Callers == {accounts[a].userId : a \in DOMAIN accounts}

\* the forms submitted to createTransaction
CallCreateInputs ==
  { FormData(type, 2000, StartTime, "food", "a1", rec,
             IF rec THEN "DAILY" ELSE Undefined) :
      type \in Types, rec \in BOOLEAN }

StartCall ==
  /\ Len(calls) < MaxCalls
  /\ \E u \in Callers :
       \/ \E data \in CallCreateInputs :
            calls' = Append(calls, LedgerCall("create", u, Null, {}, data))
       \/ \E id \in DOMAIN transactions :
            \E data \in UpdateInputs(transactions[id]) :
              calls' = Append(calls, LedgerCall("update", u, id, {}, data))
       \/ \E ids \in SUBSET DOMAIN transactions :
            /\ ids # {}
            /\ calls' = Append(calls, LedgerCall("delete", u, Null, ids, NoForm))
       \/ calls' = Append(calls, LedgerCall("get", u, Null, {}, NoForm))
  /\ UNCHANGED <<clock, transactions, accounts, nextId, scan, runs, edits,
                 budgetVars, throttle, reportRun, reports, cache>>

\* createTransaction: db.account.findUnique and newBalance
CreateRead(c) ==
  /\ calls[c].op = "create" /\ calls[c].pc = "start"
  /\ LET data == calls[c].data
         found == /\ data.accountId \in DOMAIN accounts
                  /\ accounts[data.accountId].userId = calls[c].userId
     IN  calls' = [calls EXCEPT
                     ![c].pc = IF found THEN "read" ELSE "done",
                     ![c].newBalance =
                        IF found
                        THEN accounts[data.accountId].balance
                               + Signed(data.type, data.amount)
                        ELSE 0]
  /\ UNCHANGED <<clock, transactions, accounts, nextId, scan, runs, edits,
                 budgetVars, throttle, reportRun, reports, cache>>

\* createTransaction: db.$transaction, from its first statement to its commit
CreateCommit(c) ==
  /\ calls[c].op = "create" /\ calls[c].pc = "read"
  /\ nextId <= MaxRows
  /\ SetDb(TxCommit(CurrentDb,
                    <<CreateWrite(CreatedRow(calls[c].data, calls[c].userId)),
                      SetBalanceWrite(calls[c].data.accountId,
                                      calls[c].newBalance)>>))
  /\ calls' = [calls EXCEPT ![c].pc = "committed"]
  /\ UNCHANGED <<clock, scan, runs, edits, budgetVars, throttle, reportRun,
                 reports, cache>>

\* updateTransaction: findUnique of the original; "Transaction not found"
\* is thrown when it is missing
UpdateRead(c) ==
  /\ calls[c].op = "update" /\ calls[c].pc = "start"
  /\ LET snap == FindUnique(transactions, calls[c].id, calls[c].userId)
     IN  calls' = [calls EXCEPT
                     ![c].pc = IF snap.found THEN "read" ELSE "done",
                     ![c].original = snap.row]
  /\ UNCHANGED <<clock, transactions, accounts, nextId, scan, runs, edits,
                 budgetVars, throttle, reportRun, reports, cache>>

\* updateTransaction: db.$transaction; tx.transaction.update throws when the
\* row is gone, and the transaction is rolled back
UpdateCommit(c) ==
  /\ calls[c].op = "update" /\ calls[c].pc = "read"
  /\ IF FindUnique(transactions, calls[c].id, calls[c].userId).found
     THEN /\ transactions' =
               [transactions EXCEPT
                  ![calls[c].id] = UpdatedRow(@, calls[c].data)]
          /\ accounts' =
               [accounts EXCEPT
                  ![calls[c].data.accountId].balance =
                     @ + netBalanceChange(calls[c].original, calls[c].data)]
          /\ calls' = [calls EXCEPT ![c].pc = "committed"]
     ELSE /\ calls' = [calls EXCEPT ![c].pc = "done"]
          /\ UNCHANGED <<transactions, accounts>>
  /\ UNCHANGED <<clock, nextId, scan, runs, edits, budgetVars, throttle,
                 reportRun, reports, cache>>

\* invalidateCache(createCacheKey(user.id, "accounts")), then the return
InvalidateAccounts(c) ==
  /\ calls[c].pc = "committed"
  /\ cache' = [cache EXCEPT ![calls[c].userId] = NoEntry]
  /\ calls' = [calls EXCEPT ![c].pc = "done"]
  /\ UNCHANGED <<clock, transactions, accounts, nextId, scan, runs, edits,
                 budgetVars, throttle, reportRun, reports>>

\* bulkDeleteTransactions: findMany and accountBalanceChanges
DeleteRead(c) ==
  /\ calls[c].op = "delete" /\ calls[c].pc = "start"
  /\ LET found == {i \in calls[c].ids \cap DOMAIN transactions :
                     transactions[i].userId = calls[c].userId}
     IN  calls' = [calls EXCEPT
                     ![c].pc = "read",
                     ![c].changes = accountBalanceChanges(transactions, found)]
  /\ UNCHANGED <<clock, transactions, accounts, nextId, scan, runs, edits,
                 budgetVars, throttle, reportRun, reports, cache>>

\* bulkDeleteTransactions: db.$transaction with deleteMany and one increment
\* per account of accountBalanceChanges, then the return
DeleteCommit(c) ==
  /\ calls[c].op = "delete" /\ calls[c].pc = "read"
  /\ LET gone == {i \in calls[c].ids \cap DOMAIN transactions :
                    transactions[i].userId = calls[c].userId}
         changes == calls[c].changes
     IN  /\ transactions' =
               [i \in DOMAIN transactions \ gone |-> transactions[i]]
         /\ accounts' =
               [a \in DOMAIN accounts |->
                  IF a \in DOMAIN changes
                  THEN [accounts[a] EXCEPT !.balance = @ + changes[a]]
                  ELSE accounts[a]]
  /\ calls' = [calls EXCEPT ![c].pc = "done"]
  /\ UNCHANGED <<clock, nextId, scan, runs, edits, budgetVars, throttle,
                 reportRun, reports, cache>>

\* getUserAccountsFromDb, serialized
AccountsView(acc, userId) == [a \in AccountsOf(acc, userId) |-> acc[a]]

\* getUserAccountsCached: getCache; a hit is returned
GetCached(c) ==
  /\ calls[c].op = "get" /\ calls[c].pc = "start"
  /\ calls' = IF cache[calls[c].userId].hit
              THEN [calls EXCEPT ![c].pc = "done",
                                 ![c].view = cache[calls[c].userId].accounts]
              ELSE [calls EXCEPT ![c].pc = "miss"]
  /\ UNCHANGED <<clock, transactions, accounts, nextId, scan, runs, edits,
                 budgetVars, throttle, reportRun, reports, cache>>

\* getUserAccountsCached: the accounts are read from the store
GetFromDb(c) ==
  /\ calls[c].op = "get" /\ calls[c].pc = "miss"
  /\ calls' = [calls EXCEPT
                 ![c].pc = "read",
                 ![c].view = AccountsView(accounts, calls[c].userId)]
  /\ UNCHANGED <<clock, transactions, accounts, nextId, scan, runs, edits,
                 budgetVars, throttle, reportRun, reports, cache>>

\* getUserAccountsCached: setCache of what was read, then the return
SetCached(c) ==
  /\ calls[c].op = "get" /\ calls[c].pc = "read"
  /\ cache' = [cache EXCEPT
                 ![calls[c].userId] = [hit |-> TRUE, accounts |-> calls[c].view]]
  /\ calls' = [calls EXCEPT ![c].pc = "done"]
  /\ UNCHANGED <<clock, transactions, accounts, nextId, scan, runs, edits,
                 budgetVars, throttle, reportRun, reports>>

\* the entry of a user outlives its ttl and is dropped by the cache
ExpireAccounts(u) ==
  /\ cache[u].hit
  /\ cache' = [cache EXCEPT ![u] = NoEntry]
  /\ UNCHANGED <<clock, transactions, accounts, nextId, scan, runs, edits,
                 budgetVars, throttle, calls, reportRun, reports>>

\* the server actions of the signed-in users, interleaved with each other
\* and with re-fires
NextActions ==
  \/ StartCall
  \/ \E c \in 1..Len(calls) : CreateRead(c)
  \/ \E c \in 1..Len(calls) : CreateCommit(c)
  \/ \E c \in 1..Len(calls) : UpdateRead(c)
  \/ \E c \in 1..Len(calls) : UpdateCommit(c)
  \/ \E c \in 1..Len(calls) : InvalidateAccounts(c)
  \/ \E c \in 1..Len(calls) : DeleteRead(c)
  \/ \E c \in 1..Len(calls) : DeleteCommit(c)
  \/ \E c \in 1..Len(calls) : GetCached(c)
  \/ \E c \in 1..Len(calls) : GetFromDb(c)
  \/ \E c \in 1..Len(calls) : SetCached(c)
  \/ \E u \in Users : ExpireAccounts(u)
  \/ \E id \in DOMAIN transactions : Refire(id)

ActionsSpec == InitLedger /\ [][NextActions]_vars

\* ================================================================= claims
RunIds == 1..Len(runs)
Commits(d) == d \in RunIds /\ runs[d].pc = "tx3" /\ runs'[d].pc = "done"
Originals == {i \in DOMAIN transactions : ~transactions[i].recurringCopy}
Occurrences == {i \in DOMAIN transactions : transactions[i].recurringCopy}

\* C1: the commit of one delivery of a due transaction T creates exactly one
\* new row that copies T's type, amount, category, account and user, is dated
\* now, COMPLETED and non-recurring; changes the balance of T's account by
\* +amount (INCOME) or -amount (EXPENSE) and no other balance; and sets
\* T.lastProcessed = now and
\* T.nextRecurringDate = calculateNextRecurringDate(now, T.recurringInterval).
C1_RefireEffect ==
  [][\A d \in RunIds :
       Commits(d) =>
         LET t == runs[d].snap.row
             id == runs[d].transactionId
             new == DOMAIN transactions' \ DOMAIN transactions
         IN  /\ Cardinality(new) = 1
             /\ \A n \in new :
                  /\ transactions'[n].type = t.type
                  /\ transactions'[n].amount = t.amount
                  /\ transactions'[n].category = t.category
                  /\ transactions'[n].accountId = t.accountId
                  /\ transactions'[n].userId = t.userId
                  /\ transactions'[n].date = clock
                  /\ transactions'[n].status = "COMPLETED"
                  /\ transactions'[n].isRecurring = FALSE
             /\ accounts'[t.accountId].balance =
                  accounts[t.accountId].balance
                    + (IF t.type = "INCOME" THEN t.amount ELSE 0 - t.amount)
             /\ \A a \in AccountIds \ {t.accountId} : accounts'[a] = accounts[a]
             /\ transactions'[id].lastProcessed = clock
             /\ transactions'[id].nextRecurringDate =
                  calculateNextRecurringDate(clock, t.recurringInterval)
             /\ \A i \in DOMAIN transactions \ {id} :
                  transactions'[i] = transactions[i]
     ]_vars

\* the example of C1: balance 1000.00, a due MONTHLY EXPENSE of 50.00, after
\* one pass 950.00, one new row, the next date one month ahead
C1_Witness ==
  /\ accounts["a1"].balance = 95000
  /\ Cardinality(Occurrences) = 1
  /\ \E d \in RunIds : created(runs[d]) /\ runs[d].transactionId = 1
  /\ transactions[1].recurringInterval = "MONTHLY"
  /\ transactions[1].lastProcessed = StartTime
  /\ transactions[1].nextRecurringDate = Instant(2025, 3, 28, 0)

\* C2: a delivery that fetched the transaction after an earlier re-fire had
\* committed (lastProcessed present), with a valid recurringInterval and
\* nextRecurringDate later than now, ends as a no-op: no row is created, no
\* balance changes, and the original's lastProcessed and nextRecurringDate
\* stay as they are.
C2_SequentialRedelivery ==
  [][\A d \in RunIds :
       ( /\ runs[d].pc = "fetched"
         /\ runs'[d].pc # "fetched"
         /\ runs[d].snap.found
         /\ runs[d].snap.row.lastProcessed # Null
         /\ runs[d].snap.row.recurringInterval \in Intervals
         /\ runs[d].snap.row.nextRecurringDate > clock )
       => /\ runs'[d].pc = "done"
          /\ runs'[d].result = "skipped"
          /\ transactions' = transactions
          /\ accounts' = accounts
     ]_vars

\* a second delivery of the work item of transaction 1 was skipped after
\* the first one had re-fired it
C2_Witness ==
  \E d \in RunIds : \E e \in RunIds :
    /\ d < e
    /\ runs[d].transactionId = runs[e].transactionId
    /\ created(runs[d])
    /\ runs[e].pc = "done" /\ runs[e].result = "skipped"
    /\ transactions[runs[e].transactionId].recurringInterval \in Intervals
    /\ transactions[runs[e].transactionId].nextRecurringDate > clock
    /\ Cardinality(Occurrences) = 1

\* C3: of the deliveries of one work item that are processed concurrently,
\* at most one creates an occurrence and changes the balance: no delivery
\* commits a re-fire after another delivery of the same work item committed
\* one between its fetch and its commit.
C3_ConcurrentDuplicates ==
  \A d \in RunIds : created(runs[d]) => ~runs[d].raced

\* C4: the three mutations of a re-fire are all applied or none: in every
\* state, crashes included, every account's balance is its initial balance
\* plus the signed amounts of the occurrence rows in the table, there are as
\* many occurrence rows as committed re-fires, and an original carries
\* lastProcessed exactly when a re-fire of it has committed.
C4_Atomicity ==
  /\ \A a \in AccountIds :
       accounts[a].balance =
         InitialBalance([i \in Originals |-> transactions[i]], a)
           + LedgerSum([i \in Occurrences |-> transactions[i]], a)
  /\ Cardinality(Occurrences)
       = Cardinality({d \in RunIds : created(runs[d])})
  /\ \A i \in Originals :
       transactions[i].lastProcessed # Null
         <=> \E d \in RunIds : created(runs[d]) /\ runs[d].transactionId = i

\* a step failed with all three statements issued and was retried, and a
\* re-fire has committed
C4_Witness ==
  /\ \E d \in RunIds : runs[d].attempts > 0 /\ created(runs[d])
  /\ \E d \in RunIds : runs[d].pc = "failed"
  /\ Occurrences # {}

\* C5: every account's balance equals the balance it was created with plus
\* the signed sum of the transactions currently associated with it.
C5_LedgerBalance ==
  \A a \in AccountIds :
    accounts[a].balance = OpeningBalance(a) + LedgerSum(transactions, a)

\* C6: at most one budget alert is sent per user per calendar month: no two
\* alert emails of the log go to the same user in the same month of the same
\* year, re-executions of a failed per-budget step included.
C6_OneAlertPerMonth ==
  \A i \in 1..Len(alerts) : \A j \in 1..Len(alerts) :
    (i < j /\ alerts[i].user = alerts[j].user)
      => \/ getMonth(alerts[i].at) # getMonth(alerts[j].at)
         \/ getFullYear(alerts[i].at) # getFullYear(alerts[j].at)

\* C7: when a checkBudgetAlerts run handles the budget of user u, the
\* notification is invoked for u and u's lastAlertSent is set to now if and
\* only if u has a default account, percentageUsed >= 80 and lastAlertSent
\* is absent or its month or year differs from now's; otherwise no email is
\* sent and no budget changes.  In particular a user with no default account
\* gets no alert.
C7_AlertDecision ==
  [][(alertRun.pc = "loop" /\ alertRun' # alertRun) =>
       LET u == Head(alertRun.todo).userId
           last == budgets[u].lastAlertSent
           defaults == {a \in AccountIds :
                          accounts[a].userId = u /\ accounts[a].isDefault}
           used == \E a \in defaults :
                     totalExpenses(transactions, u, a, clock) * 100
                       >= 80 * budgets[u].amount
           fresh == \/ last = Null
                    \/ getMonth(last) # getMonth(clock)
                    \/ getFullYear(last) # getFullYear(clock)
       IN  IF defaults # {} /\ used /\ fresh
           THEN /\ alerts' = Append(alerts, [user |-> u, at |-> clock])
                /\ budgets' = [budgets EXCEPT ![u].lastAlertSent = clock]
           ELSE /\ alerts' = alerts
                /\ budgets' = budgets
    ]_vars

\* the example of C7: percentageUsed = 85; the first run of the month sent
\* the alert and the second run, with lastAlertSent in the same month, sent
\* none
C7_Witness ==
  /\ alertRun.pc = "idle" /\ alertRun.started = 2
  /\ nextId = 2
  /\ totalExpenses(transactions, "u1", "a1", clock) * 100
       = 85 * budgets["u1"].amount
  /\ alerts = <<[user |-> "u1", at |-> StartTime]>>
  /\ budgets["u1"].lastAlertSent = StartTime
  /\ clock = StartTime + 1

\* C8: the scan returns exactly the transactions with isRecurring = true,
\* status = COMPLETED and (lastProcessed absent or nextRecurringDate <= now);
\* the dispatch emits one work item {transactionId, userId} for each of
\* them and nothing else, returns their number as triggered, and neither
\* step changes a ledger record.
C8_ScanDispatch ==
  [][ /\ (scan.pc = "idle" /\ scan'.pc = "fetched") =>
           /\ scan'.found =
                { [id |-> i, userId |-> transactions[i].userId] :
                    i \in { j \in DOMAIN transactions :
                              /\ transactions[j].isRecurring
                              /\ transactions[j].status = "COMPLETED"
                              /\ \/ transactions[j].lastProcessed = Null
                                 \/ /\ transactions[j].nextRecurringDate # Null
                                    /\ transactions[j].nextRecurringDate
                                         <= clock } }
           /\ transactions' = transactions /\ accounts' = accounts
      /\ (scan.pc = "fetched" /\ scan'.pc = "idle") =>
           LET emitted == SubSeq(runs', Len(runs) + 1, Len(runs'))
           IN  /\ SubSeq(runs', 1, Len(runs)) = runs
               /\ { [id |-> emitted[k].transactionId,
                     userId |-> emitted[k].userId] : k \in 1..Len(emitted) }
                    = scan.found
               /\ Len(emitted) = Cardinality(scan.found)
               /\ \A k \in 1..Len(emitted) : emitted[k].pc = "queued"
               /\ scan'.triggered = Len(emitted)
               /\ transactions' = transactions /\ accounts' = accounts
    ]_vars

\* a run returned triggered = 1 with two recurring rows in the table, one of
\* them not due
C8_Witness ==
  /\ scan.pc = "idle" /\ scan.triggered = 1
  /\ \E i \in DOMAIN transactions :
       /\ ScanWhere(transactions[i], clock)
       /\ \E d \in RunIds : runs[d].transactionId = i
  /\ \E i \in DOMAIN transactions :
       /\ transactions[i].isRecurring
       /\ ~ScanWhere(transactions[i], clock)
       /\ \A d \in RunIds : runs[d].transactionId # i

\* C9: a delivery whose re-fetched transaction does not satisfy the
\* scanner's predicate at processing time (isRecurring = true, status =
\* COMPLETED, lastProcessed absent or nextRecurringDate <= now) is a no-op:
\* it opens no re-fire, creates no row and changes no balance.
C9_GuardIsScanPredicate ==
  [][\A d \in RunIds :
       ( /\ runs[d].pc = "fetched"
         /\ runs'[d].pc # "fetched"
         /\ runs[d].snap.found
         /\ ~( /\ runs[d].snap.row.isRecurring
               /\ runs[d].snap.row.status = "COMPLETED"
               /\ \/ runs[d].snap.row.lastProcessed = Null
                  \/ /\ runs[d].snap.row.nextRecurringDate # Null
                     /\ runs[d].snap.row.nextRecurringDate <= clock ) )
       => /\ runs'[d].pc = "done"
          /\ runs'[d].result = "skipped"
          /\ transactions' = transactions
          /\ accounts' = accounts
     ]_vars

\* C10 (its last part): when a later scan emits a transaction again that an
\* earlier scan had already emitted, the two deliveries do not both create
\* an occurrence for the same due date: of two deliveries of one transaction
\* from different scans that both re-fired it, neither committed while the
\* other was between its fetch and its commit.
C10_RescanDuplicates ==
  \A d \in RunIds : \A e \in RunIds :
    ( /\ runs[d].transactionId = runs[e].transactionId
      /\ runs[d].batch < runs[e].batch
      /\ created(runs[d])
      /\ created(runs[e]) )
    => (~runs[d].raced /\ ~runs[e].raced)

\* the calendar month after month m of year y
NextMonthOf(y, m) == IF m = 12 THEN [y |-> y + 1, m |-> 1] ELSE [y |-> y, m |-> m + 1]

Recurring == {i \in DOMAIN transactions : transactions[i].isRecurring}

\* C13: when the reference day-of-month does not exist in the target month,
\* the next date is the last day of the target month, never a date in the
\* following month: for MONTHLY the last day of the next calendar month, for
\* YEARLY from February 29 the 28th of February of the next year.
C13_MonthEndClamp ==
  \A i \in Recurring :
    LET ref == transactions[i].date
        next == transactions[i].nextRecurringDate
        y == getFullYear(ref)
        m == getMonth(ref)
        d == getDate(ref)
        t == NextMonthOf(y, m)
    IN  /\ (transactions[i].recurringInterval = "MONTHLY"
              /\ d > DaysInMonth(t.y, t.m))
           => /\ getFullYear(next) = t.y
              /\ getMonth(next) = t.m
              /\ getDate(next) = DaysInMonth(t.y, t.m)
        /\ (transactions[i].recurringInterval = "YEARLY"
              /\ d > DaysInMonth(y + 1, m))
           => /\ getFullYear(next) = y + 1
              /\ getMonth(next) = m
              /\ getDate(next) = DaysInMonth(y + 1, m)

\* C14: the next date is 1 day later for DAILY, 7 days later for WEEKLY, the
\* same day-of-month one calendar month later for MONTHLY and the same date
\* one calendar year later for YEARLY (when that day exists), at the same
\* time of day; it is strictly later than the reference date, and the
\* reference date is stored as it was passed in.
C14_NextDate ==
  \A i \in Recurring :
    LET ref == transactions[i].date
        next == transactions[i].nextRecurringDate
        interval == transactions[i].recurringInterval
        y == getFullYear(ref)
        m == getMonth(ref)
        d == getDate(ref)
        t == NextMonthOf(y, m)
    IN  /\ ref \in RefDates
        /\ next > ref
        /\ interval = "DAILY" => next = ref + TicksPerDay
        /\ interval = "WEEKLY" => next = ref + 7 * TicksPerDay
        /\ (interval = "MONTHLY" /\ d <= DaysInMonth(t.y, t.m))
           => /\ getFullYear(next) = t.y /\ getMonth(next) = t.m
              /\ getDate(next) = d /\ TimeOfDay(next) = TimeOfDay(ref)
        /\ (interval = "YEARLY" /\ d <= DaysInMonth(y + 1, m))
           => /\ getFullYear(next) = y + 1 /\ getMonth(next) = m
              /\ getDate(next) = d /\ TimeOfDay(next) = TimeOfDay(ref)

\* a MONTHLY transaction dated 2024-12-15 whose next date is 2025-01-15
C14_Witness ==
  \E i \in Recurring :
    /\ transactions[i].recurringInterval = "MONTHLY"
    /\ transactions[i].date = Instant(2024, 12, 15, 1)
    /\ transactions[i].nextRecurringDate = Instant(2025, 1, 15, 1)

\* C15: processing a due recurring transaction whose recurringInterval is
\* absent or not one of DAILY, WEEKLY, MONTHLY, YEARLY fails that item: no
\* delivery of such a transaction ends having created an occurrence, changed
\* a balance and rescheduled it.
C15_InvalidIntervalFails ==
  \A d \in RunIds :
    created(runs[d])
      => transactions[runs[d].transactionId].recurringInterval \in Intervals

\* C16: every transaction has nextRecurringDate and recurringInterval
\* present if and only if isRecurring is true, and no transaction with
\* isRecurring = false carries lastProcessed.
C16_RecurrenceFields ==
  \A i \in DOMAIN transactions :
    LET r == transactions[i]
    IN  /\ r.isRecurring <=> r.nextRecurringDate # Null
        /\ r.isRecurring <=> r.recurringInterval # NoInterval
        /\ ~r.isRecurring => r.lastProcessed = Null

\* C12: when an attempt of the processor's step fails, the ledger stays as
\* it was, the attempt is counted and the next one is scheduled after a
\* longer delay, and after the last allowed attempt the work item is failed;
\* a failed item stays failed (it never succeeds and never disappears), no
\* item is dropped, and the commit of a retried item creates exactly one
\* occurrence.
C12_BoundedRetry ==
  [][ /\ Len(runs') >= Len(runs)
      /\ \A d \in RunIds :
           /\ runs'[d].transactionId = runs[d].transactionId
           /\ runs'[d].attempts <= MaxAttempts
           /\ runs'[d].attempts # runs[d].attempts =>
                /\ runs'[d].attempts = runs[d].attempts + 1
                /\ transactions' = transactions
                /\ accounts' = accounts
                /\ runs'[d].delay > runs[d].delay
                /\ runs'[d].pc = IF runs'[d].attempts < MaxAttempts
                                 THEN "queued" ELSE "failed"
           /\ runs[d].pc = "failed" => runs'[d] = runs[d]
           /\ runs'[d].pc = "failed" => runs'[d].attempts = MaxAttempts
           /\ (Commits(d) /\ runs[d].attempts > 0) =>
                /\ Cardinality(DOMAIN transactions' \ DOMAIN transactions) = 1
                /\ runs'[d].result = "created"
    ]_vars

\* one work item failed for good after its last attempt and left its
\* transaction unprocessed; another failed once, was retried and created its
\* one occurrence
C12_Witness ==
  \E d \in RunIds : \E e \in RunIds :
    /\ runs[d].pc = "failed" /\ runs[d].attempts = MaxAttempts
    /\ transactions[runs[d].transactionId].lastProcessed = Null
    /\ runs[e].transactionId # runs[d].transactionId
    /\ created(runs[e]) /\ runs[e].attempts = 1
    /\ Cardinality(Occurrences) = 1

\* C11: at most ThrottleLimit = 10 work items of one user start within any
\* window of ThrottlePeriod = 60 seconds, and at most 10 in the first window
\* after the dispatch; an item of a user whose own window has room can start
\* whatever the other users' items do; no item is dropped (every dispatched
\* item is queued or started), and every queued item is eventually started.
C11_Throttle ==
  /\ [](\A u \in Users :
          /\ Len(throttle[u].started) <= 10
          /\ throttle[u].first <= 10
          /\ throttle[u].queued >= 0
          /\ throttle[u].queued <= throttle[u].size
          /\ (throttle[u].queued > 0 /\ Len(throttle[u].started) < 10)
               => ENABLED StartItem(u))
  /\ [][\A u \in Users :
          /\ throttle[u].size # 0 => throttle'[u].size = throttle[u].size
          /\ throttle'[u].queued < throttle[u].queued
               => /\ throttle'[u].queued = throttle[u].queued - 1
                  /\ Len(throttle'[u].started) = Len(throttle[u].started) + 1
       ]_vars
  /\ \A u \in Users :
       (throttle[u].queued > 0) ~> (throttle[u].queued = 0)

\* 15 items of u1 were dispatched together, 10 of them started in the first
\* 60 seconds, 5 were deferred and started later; all 15 are processed
C11_Witness ==
  /\ throttle["u1"].size = 15
  /\ throttle["u1"].first = 10
  /\ throttle["u1"].elapsed = ThrottlePeriod
  /\ throttle["u1"].queued = 0
  /\ throttle["u2"].size > 0 /\ throttle["u2"].queued = 0

\* C17: in every reachable state, a user who has at least one account has
\* exactly one account with isDefault = true, the states between the steps
\* of createAccount and toggleDefaultAccount calls included.
C17_OneDefaultAccount ==
  \A u \in Users :
    AccountsOf(accounts, u) # {}
      => Cardinality({a \in AccountsOf(accounts, u) : accounts[a].isDefault})
           = 1

\* C17 for the states in which no call is in progress
C17_OneDefaultWhenQuiet ==
  (\A c \in 1..Len(calls) : calls[c].pc = "done") => C17_OneDefaultAccount

\* the user's transactions dated within calendar month m of year y
InMonth(userId, y, m) ==
  {i \in DOMAIN transactions :
     /\ transactions[i].userId = userId
     /\ getFullYear(transactions[i].date) = y
     /\ getMonth(transactions[i].date) = m}

ExpensesIn(S) == {i \in S : transactions[i].type = "EXPENSE"}

IncomeIn(S) == {i \in S : transactions[i].type = "INCOME"}

\* C18: the statistics of a monthly report count exactly the user's
\* transactions dated within the calendar month, first instant of day 1
\* through last instant of the last day: totalIncome is the sum of the INCOME
\* amounts, totalExpenses the sum of the EXPENSE amounts, byCategory[c] the
\* sum of the EXPENSE amounts of category c, and the values of byCategory
\* sum to totalExpenses.
C18_MonthlyAggregation ==
  \A r \in 1..Len(reports) :
    LET rep == reports[r]
        S == InMonth(rep.to, rep.year, rep.month)
        by == rep.stats.byCategory
    IN  /\ rep.stats.totalIncome = AmountSum(transactions, IncomeIn(S))
        /\ rep.stats.totalExpenses = AmountSum(transactions, ExpensesIn(S))
        /\ \A i \in ExpensesIn(S) :
             transactions[i].category # ""
               => /\ transactions[i].category \in DOMAIN by
                  /\ by[transactions[i].category] =
                       AmountSum(transactions,
                                 {j \in ExpensesIn(S) :
                                    transactions[j].category
                                      = transactions[i].category})
        /\ SumOver(DOMAIN by, by) = rep.stats.totalExpenses

\* C18 holds of the sums over what getMonthlyStats selected: the values of
\* byCategory always sum to totalExpenses
C18_CategoriesSumToExpenses ==
  \A r \in 1..Len(reports) :
    SumOver(DOMAIN reports[r].stats.byCategory, reports[r].stats.byCategory)
      = reports[r].stats.totalExpenses

\* the reports of users without a transaction in the month reported on
QuietReports ==
  {r \in 1..Len(reports) :
     InMonth(reports[r].to, reports[r].year, reports[r].month) = {}}

\* every user's report of the run was handed to sendEmail, with the insights
\* generateFinancialInsights returned for it
AllReportsSent ==
  reportRun.pc = "done"
    => \A u \in Users :
         \E r \in 1..Len(reports) :
           reports[r].to = u /\ Len(reports[r].insights) > 0

\* C19 as stated: for a user with zero transactions in the prior month the
\* report has income 0, expense 0 and a category mapping without keys,
\* insight generation is invoked and the report is sent.
C19_EmptyCategoryMapping ==
  /\ \A r \in QuietReports :
       /\ reports[r].stats.totalIncome = 0
       /\ reports[r].stats.totalExpenses = 0
       /\ DOMAIN reports[r].stats.byCategory = {}
  /\ AllReportsSent

\* C19 amended: for a user with zero transactions in the prior month the
\* report has income 0, expense 0 and a category mapping whose keys are the
\* five seeded categories, each with value 0; insight generation is invoked
\* and the report is sent.
C19_ZeroReport ==
  /\ \A r \in QuietReports :
       /\ reports[r].stats.totalIncome = 0
       /\ reports[r].stats.totalExpenses = 0
       /\ DOMAIN reports[r].stats.byCategory
            = {"housing", "groceries", "transportation", "entertainment",
               "utilities"}
       /\ \A c \in DOMAIN reports[r].stats.byCategory :
            reports[r].stats.byCategory[c] = 0
  /\ AllReportsSent

\* a finished run that reported to a user without transactions in February
\* while the other user has some
C19_Witness ==
  /\ reportRun.pc = "done"
  /\ QuietReports # {}
  /\ \E i \in DOMAIN transactions :
       getMonth(transactions[i].date) = 2 /\ transactions[i].type = "EXPENSE"

\* C20: whenever the insight call fails (it throws, times out or answers
\* with text that does not parse), generateFinancialInsights returns one and
\* the same list of exactly 3 strings, and the user's report is still
\* handed to sendEmail.
C20_InsightFallback ==
  /\ \A r \in 1..Len(reports) :
       reports[r].failed
         => /\ Len(reports[r].insights) = 3
            /\ \A q \in 1..Len(reports) :
                 reports[q].failed => reports[q].insights = reports[r].insights
  /\ reportRun.pc = "send" /\ Failed(reportRun.response)
       => /\ Len(reportRun.insights) = 3
          /\ ENABLED SendReport
  /\ AllReportsSent

\* a finished run in which the insight calls of both reports failed
C20_Witness ==
  /\ reportRun.pc = "done"
  /\ Len(reports) = 2
  /\ reports[1].failed /\ reports[2].failed
  /\ reports[1].insights = reports[2].insights

\* C21: a failure while handling one user never aborts a batch pass: when
\* the pass of generateMonthlyReports has ended, however it ended, every
\* user of the pass has been reported to.
C21_PassNotAborted ==
  reportRun.pc \in {"done", "failed"}
    => \A u \in Users : \E r \in 1..Len(reports) : reports[r].to = u

\* C23: a recurring transaction is re-fired only when its next scheduled
\* date has arrived: a step that creates an occurrence of transaction i (a
\* row is added and i.lastProcessed is set) is taken only while
\* i.nextRecurringDate <= now; so a transaction createTransaction stored
\* with date d and interval I is not re-fired before d + I.
C23_RefireOnlyWhenDue ==
  [][\A i \in DOMAIN transactions :
       ( /\ i \in DOMAIN transactions'
         /\ transactions'[i].lastProcessed # transactions[i].lastProcessed
         /\ DOMAIN transactions' # DOMAIN transactions )
       => /\ transactions[i].nextRecurringDate # Null
          /\ transactions[i].nextRecurringDate <= clock
    ]_vars

\* the signed sum of the original rows of account a
OriginalSum(a) ==
  LedgerSum([i \in Originals |-> transactions[i]], a)

\* C24: when two processRecurringTransaction runs for distinct due
\* transactions of one account have both committed, however their steps
\* interleaved, two occurrences exist and the balance of the account is its
\* initial balance plus both signed amounts.
C24_BothRefiresApply ==
  \A d \in RunIds : \A e \in RunIds :
    ( /\ d < e
      /\ created(runs[d]) /\ created(runs[e])
      /\ runs[d].transactionId # runs[e].transactionId
      /\ transactions[runs[d].transactionId].accountId
           = transactions[runs[e].transactionId].accountId
      /\ \A f \in RunIds \ {d, e} : ~created(runs[f]) /\ runs[f].buf = <<>> )
    => LET td == transactions[runs[d].transactionId]
           te == transactions[runs[e].transactionId]
           a == td.accountId
       IN  /\ Cardinality(Occurrences) = 2
           /\ accounts[a].balance =
                OpeningBalance(a) + OriginalSum(a)
                  + Signed(td.type, td.amount) + Signed(te.type, te.amount)

\* two MONTHLY EXPENSEs of 50.00 of account a1 were re-fired by two runs
C24_Witness ==
  /\ Len(runs) = 2
  /\ created(runs[1]) /\ created(runs[2])
  /\ runs[1].transactionId # runs[2].transactionId
  /\ transactions[runs[1].transactionId].accountId = "a1"
  /\ transactions[runs[2].transactionId].accountId = "a1"
  /\ accounts["a1"].balance = 85000

\* the work item of run d lacks a field, names no transaction, or names a
\* transaction of another user
InvalidItem(d) ==
  \/ MissingData(runs[d])
  \/ runs[d].transactionId \notin DOMAIN transactions
  \/ transactions[runs[d].transactionId].userId # runs[d].userId

\* C26: every step of the run of an invalid work item leaves all
\* transactions and all account balances unchanged, the run is not retried,
\* and it ends without a re-fire.
C26_InvalidItemsChangeNothing ==
  [][\A d \in RunIds :
       (InvalidItem(d) /\ runs'[d].pc # runs[d].pc)
       => /\ transactions' = transactions
          /\ accounts' = accounts
          /\ runs'[d].attempts = 0
          /\ runs'[d].pc \in {"fetched", "done"}
          /\ runs'[d].pc = "done" => runs'[d].result \in {"error", "skipped"}
    ]_vars

\* the work item of a transaction of u1 arrived with userId u2 and was
\* dropped, while the item the scan emitted for that transaction re-fired it
C26_Witness ==
  \E d \in RunIds : \E e \in RunIds :
    /\ runs[d].userId = "u2"
    /\ runs[d].pc = "done" /\ runs[d].result = "skipped"
    /\ runs[e].transactionId = runs[d].transactionId
    /\ created(runs[e])

\* the EXPENSE amounts of the account dated from the first instant of day 1
\* of the month of now up to now
WindowSum(userId, accountId, now) ==
  LET first == Instant(getFullYear(now), getMonth(now), 1, 0)
      ids == {i \in DOMAIN transactions :
                /\ transactions[i].userId = userId
                /\ transactions[i].accountId = accountId
                /\ transactions[i].type = "EXPENSE"
                /\ transactions[i].date >= first
                /\ transactions[i].date <= now}
  IN  AmountSum(transactions, ids)

\* C27: the total checkBudgetAlerts compares with the budget is the sum of
\* exactly the EXPENSE transactions of the user's default account dated from
\* the first instant of day 1 of the current month up to now.
C27_ExpenseWindow ==
  (alertRun.pc = "loop" /\ Head(alertRun.todo).defaultAccount # NoAccount)
    => LET budget == Head(alertRun.todo)
       IN  totalExpenses(transactions, budget.userId, budget.defaultAccount,
                         clock)
             = WindowSum(budget.userId, budget.defaultAccount, clock)

\* C28: a budget's lastAlertSent is advanced only by a step whose alert was
\* delivered: a step in which sendEmail reports failure leaves lastAlertSent
\* unchanged.
C28_AdvanceOnlyOnDelivery ==
  [][\A u \in Users :
       budgets'[u].lastAlertSent # budgets[u].lastAlertSent
         => /\ Len(alerts') = Len(alerts) + 1
            /\ alerts'[Len(alerts')] = Email(u, clock)
    ]_vars

\* C29: every row processRecurringTransaction creates has isRecurring =
\* false and no recurringInterval, nextRecurringDate or lastProcessed, stays
\* so, is never returned by the due-item scan and never gets a work item of
\* its own; no step of the processing changes the number of recurring
\* transactions, and the original keeps its id and stays recurring.
C29_NoCascade ==
  /\ [](\A i \in Occurrences :
          /\ transactions[i].isRecurring = FALSE
          /\ transactions[i].recurringInterval = NoInterval
          /\ transactions[i].nextRecurringDate = Null
          /\ transactions[i].lastProcessed = Null
          /\ i \notin FindDue(transactions, clock)
          /\ \A e \in scan.found : e.id # i
          /\ \A d \in RunIds : runs[d].transactionId # i)
  /\ [][/\ Cardinality(Recurring') = Cardinality(Recurring)
        /\ \A i \in Originals :
             /\ i \in DOMAIN transactions'
             /\ transactions'[i].isRecurring = transactions[i].isRecurring
             /\ ~transactions'[i].recurringCopy
        /\ \A n \in DOMAIN transactions' \ DOMAIN transactions :
             transactions'[n].recurringCopy
       ]_vars

\* a scan that ran two days after an occurrence had been created found the
\* original due again, and not the occurrence
C29_Witness ==
  /\ scan.pc = "fetched"
  /\ scan.found # {}
  /\ \A e \in scan.found : e.id \in Originals
  /\ \E i \in Occurrences : transactions[i].date < clock


\* C22: no lost balance update.  The commit of a createTransaction call
\* moves the balance of its account by exactly the signed amount of the
\* transaction it creates, whatever other creations, updates and re-fires
\* have committed since the call read the account.
C22_NoLostUpdate ==
  [][\A c \in 1..Len(calls) :
       (/\ calls[c].op = "create"
        /\ calls[c].pc = "read"
        /\ calls'[c].pc = "committed")
       => accounts'[calls[c].data.accountId].balance
            = accounts[calls[c].data.accountId].balance
                + Signed(calls[c].data.type, calls[c].data.amount)]_vars


\* C25: bulkDeleteTransactions reverses each deleted transaction exactly
\* once.  The commit of a bulkDeleteTransactions call moves the balance of
\* every account by minus the signed amounts of the rows the commit removes
\* from it, with the amounts the rows have when they are removed, whatever
\* other deletions and updates have committed since the call read the rows.
C25_ReversedExactlyOnce ==
  [][\A c \in 1..Len(calls) :
       (/\ calls[c].op = "delete"
        /\ calls[c].pc = "read"
        /\ calls'[c].pc = "done")
       => \A a \in DOMAIN accounts :
            accounts'[a].balance
              = accounts[a].balance
                  - (LedgerSum(transactions, a) - LedgerSum(transactions', a))]_vars


\* C30: account-cache coherence.  Once every call has committed and
\* returned, the accounts entry a user has in the cache, if any, is the
\* account list the store holds for that user, so that the next
\* getUserAccounts returns no list read before a balance change.
C30_CacheCoherent ==
  (\A c \in 1..Len(calls) : calls[c].pc = "done")
  => \A u \in Users :
       cache[u].hit => cache[u].accounts = AccountsView(accounts, u)

====
